---- MODULE Spec2Model ----
(***************************************************************************)
(* A model of src/main.py: the number tokenizer (extract_numbers,          *)
(* parse_number_with_suffix), the scale resolver (find_scale_factor) and   *)
(* the two ranking passes (find_largest_number_in_pdf,                      *)
(* find_largest_raw_numbers).                                              *)
(*                                                                         *)
(* A text is a Python str: a sequence of Unicode code points (integers).   *)
(* The character classes of the re module (\d, \w, \b) and str.lower() are *)
(* those of the interpreter's Unicode database (version 14.0, CPython      *)
(* 3.11), held in the tables of the next section.                          *)
(*                                                                         *)
(* A float is an IEEE-754 binary64 value, never negative here, held as its *)
(* two fields [exponent, fraction]: exponent is the biased exponent        *)
(* (0..2047) and fraction the 52 fraction bits, written as four 13-bit     *)
(* limbs <<f1, f2, f3, f4>>, most significant first.  With                 *)
(* F = ((f1 * 8192 + f2) * 8192 + f3) * 8192 + f4 the value is             *)
(*   (1 + F / 2^52) * 2^(exponent - 1023)   for exponent in 1..2046,       *)
(*   F * 2^(-1074)                          for exponent = 0,              *)
(*   infinity                               for exponent = 2047, F = 0.    *)
(* float() and the product of a float and an int round to the nearest      *)
(* value, ties to even, as the interpreter does.  The int multipliers 1,   *)
(* 10^3, 10^6, 10^9, 10^12 are held as [digits |-> <<1>>, exp |-> k].      *)
(***************************************************************************)
EXTENDS Integers, Sequences, FiniteSets

VARIABLES
    pdf,        \* the document: a sequence of pages, each what extract_text() gives
    top_n,      \* the top_n argument of both ranking functions
    pc,         \* position of the main block / of the text-level run
    i,          \* the enumerate() index of the page loop (0-based, next page to visit)
    top_values, \* find_largest_number_in_pdf's list of (scaled, page, raw, multiplier)
    raw_values, \* find_largest_raw_numbers's list of (raw, page)
    top_scaled, \* what find_largest_number_in_pdf returned
    top_raw,    \* what find_largest_raw_numbers returned
    text,       \* text-level run: the text given to the three text functions
    numbers,    \* text-level run: result of extract_numbers(text)
    suffix_numbers, \* text-level run: result of parse_number_with_suffix(text)
    scale_factor    \* text-level run: result of find_scale_factor(text)

vars == <<pdf, top_n, pc, i, top_values, raw_values, top_scaled, top_raw,
          text, numbers, suffix_numbers, scale_factor>>

-----------------------------------------------------------------------------
(* Characters *)

\* the printable ASCII characters from the space (code point 32) to the
\* underscore (95) and from "a" (97) to the tilde (126); the grave accent (96)
\* cannot be written in a string
AsciiLow ==
    <<" ", "!", "\"", "#", "$", "%", "&", "'", "(", ")", "*", "+", ",", "-", ".", "/",
      "0", "1", "2", "3", "4", "5", "6", "7", "8", "9", ":", ";", "<", "=", ">", "?",
      "@", "A", "B", "C", "D", "E", "F", "G", "H", "I", "J", "K", "L", "M", "N", "O",
      "P", "Q", "R", "S", "T", "U", "V", "W", "X", "Y", "Z", "[", "\\", "]", "^", "_">>

AsciiHigh ==
    <<"a", "b", "c", "d", "e", "f", "g", "h", "i", "j", "k", "l", "m", "n", "o",
      "p", "q", "r", "s", "t", "u", "v", "w", "x", "y", "z", "{", "|", "}", "~">>

\* ord(c) of a printable ASCII character or the line feed
Ord(c) ==
    IF c = "\n" THEN 10
    ELSE IF \E k \in DOMAIN AsciiLow : AsciiLow[k] = c
    THEN 31 + (CHOOSE k \in DOMAIN AsciiLow : AsciiLow[k] = c)
    ELSE 96 + (CHOOSE k \in DOMAIN AsciiHigh : AsciiHigh[k] = c)

\* the str written as a tuple of one-character strings
Str(s) == [k \in DOMAIN s |-> Ord(s[k])]

Range(s) == {s[k] : k \in DOMAIN s}

\* the code points \w matches (str.isalnum() or "_"), as <<first, last>> ranges
WordRanges ==
    << <<48, 57>>, <<65, 90>>, <<95, 95>>, <<97, 122>>, <<170, 170>>, <<178, 179>>,
       <<181, 181>>, <<185, 186>>, <<188, 190>>, <<192, 214>>, <<216, 246>>, <<248, 705>>,
       <<710, 721>>, <<736, 740>>, <<748, 748>>, <<750, 750>>, <<880, 884>>, <<886, 887>>,
       <<890, 893>>, <<895, 895>>, <<902, 902>>, <<904, 906>>, <<908, 908>>, <<910, 929>>,
       <<931, 1013>>, <<1015, 1153>>, <<1162, 1327>>, <<1329, 1366>>, <<1369, 1369>>,
       <<1376, 1416>>, <<1488, 1514>>, <<1519, 1522>>, <<1568, 1610>>, <<1632, 1641>>,
       <<1646, 1647>>, <<1649, 1747>>, <<1749, 1749>>, <<1765, 1766>>, <<1774, 1788>>,
       <<1791, 1791>>, <<1808, 1808>>, <<1810, 1839>>, <<1869, 1957>>, <<1969, 1969>>,
       <<1984, 2026>>, <<2036, 2037>>, <<2042, 2042>>, <<2048, 2069>>, <<2074, 2074>>,
       <<2084, 2084>>, <<2088, 2088>>, <<2112, 2136>>, <<2144, 2154>>, <<2160, 2183>>,
       <<2185, 2190>>, <<2208, 2249>>, <<2308, 2361>>, <<2365, 2365>>, <<2384, 2384>>,
       <<2392, 2401>>, <<2406, 2415>>, <<2417, 2432>>, <<2437, 2444>>, <<2447, 2448>>,
       <<2451, 2472>>, <<2474, 2480>>, <<2482, 2482>>, <<2486, 2489>>, <<2493, 2493>>,
       <<2510, 2510>>, <<2524, 2525>>, <<2527, 2529>>, <<2534, 2545>>, <<2548, 2553>>,
       <<2556, 2556>>, <<2565, 2570>>, <<2575, 2576>>, <<2579, 2600>>, <<2602, 2608>>,
       <<2610, 2611>>, <<2613, 2614>>, <<2616, 2617>>, <<2649, 2652>>, <<2654, 2654>>,
       <<2662, 2671>>, <<2674, 2676>>, <<2693, 2701>>, <<2703, 2705>>, <<2707, 2728>>,
       <<2730, 2736>>, <<2738, 2739>>, <<2741, 2745>>, <<2749, 2749>>, <<2768, 2768>>,
       <<2784, 2785>>, <<2790, 2799>>, <<2809, 2809>>, <<2821, 2828>>, <<2831, 2832>>,
       <<2835, 2856>>, <<2858, 2864>>, <<2866, 2867>>, <<2869, 2873>>, <<2877, 2877>>,
       <<2908, 2909>>, <<2911, 2913>>, <<2918, 2927>>, <<2929, 2935>>, <<2947, 2947>>,
       <<2949, 2954>>, <<2958, 2960>>, <<2962, 2965>>, <<2969, 2970>>, <<2972, 2972>>,
       <<2974, 2975>>, <<2979, 2980>>, <<2984, 2986>>, <<2990, 3001>>, <<3024, 3024>>,
       <<3046, 3058>>, <<3077, 3084>>, <<3086, 3088>>, <<3090, 3112>>, <<3114, 3129>>,
       <<3133, 3133>>, <<3160, 3162>>, <<3165, 3165>>, <<3168, 3169>>, <<3174, 3183>>,
       <<3192, 3198>>, <<3200, 3200>>, <<3205, 3212>>, <<3214, 3216>>, <<3218, 3240>>,
       <<3242, 3251>>, <<3253, 3257>>, <<3261, 3261>>, <<3293, 3294>>, <<3296, 3297>>,
       <<3302, 3311>>, <<3313, 3314>>, <<3332, 3340>>, <<3342, 3344>>, <<3346, 3386>>,
       <<3389, 3389>>, <<3406, 3406>>, <<3412, 3414>>, <<3416, 3425>>, <<3430, 3448>>,
       <<3450, 3455>>, <<3461, 3478>>, <<3482, 3505>>, <<3507, 3515>>, <<3517, 3517>>,
       <<3520, 3526>>, <<3558, 3567>>, <<3585, 3632>>, <<3634, 3635>>, <<3648, 3654>>,
       <<3664, 3673>>, <<3713, 3714>>, <<3716, 3716>>, <<3718, 3722>>, <<3724, 3747>>,
       <<3749, 3749>>, <<3751, 3760>>, <<3762, 3763>>, <<3773, 3773>>, <<3776, 3780>>,
       <<3782, 3782>>, <<3792, 3801>>, <<3804, 3807>>, <<3840, 3840>>, <<3872, 3891>>,
       <<3904, 3911>>, <<3913, 3948>>, <<3976, 3980>>, <<4096, 4138>>, <<4159, 4169>>,
       <<4176, 4181>>, <<4186, 4189>>, <<4193, 4193>>, <<4197, 4198>>, <<4206, 4208>>,
       <<4213, 4225>>, <<4238, 4238>>, <<4240, 4249>>, <<4256, 4293>>, <<4295, 4295>>,
       <<4301, 4301>>, <<4304, 4346>>, <<4348, 4680>>, <<4682, 4685>>, <<4688, 4694>>,
       <<4696, 4696>>, <<4698, 4701>>, <<4704, 4744>>, <<4746, 4749>>, <<4752, 4784>>,
       <<4786, 4789>>, <<4792, 4798>>, <<4800, 4800>>, <<4802, 4805>>, <<4808, 4822>>,
       <<4824, 4880>>, <<4882, 4885>>, <<4888, 4954>>, <<4969, 4988>>, <<4992, 5007>>,
       <<5024, 5109>>, <<5112, 5117>>, <<5121, 5740>>, <<5743, 5759>>, <<5761, 5786>>,
       <<5792, 5866>>, <<5870, 5880>>, <<5888, 5905>>, <<5919, 5937>>, <<5952, 5969>>,
       <<5984, 5996>>, <<5998, 6000>>, <<6016, 6067>>, <<6103, 6103>>, <<6108, 6108>>,
       <<6112, 6121>>, <<6128, 6137>>, <<6160, 6169>>, <<6176, 6264>>, <<6272, 6276>>,
       <<6279, 6312>>, <<6314, 6314>>, <<6320, 6389>>, <<6400, 6430>>, <<6470, 6509>>,
       <<6512, 6516>>, <<6528, 6571>>, <<6576, 6601>>, <<6608, 6618>>, <<6656, 6678>>,
       <<6688, 6740>>, <<6784, 6793>>, <<6800, 6809>>, <<6823, 6823>>, <<6917, 6963>>,
       <<6981, 6988>>, <<6992, 7001>>, <<7043, 7072>>, <<7086, 7141>>, <<7168, 7203>>,
       <<7232, 7241>>, <<7245, 7293>>, <<7296, 7304>>, <<7312, 7354>>, <<7357, 7359>>,
       <<7401, 7404>>, <<7406, 7411>>, <<7413, 7414>>, <<7418, 7418>>, <<7424, 7615>>,
       <<7680, 7957>>, <<7960, 7965>>, <<7968, 8005>>, <<8008, 8013>>, <<8016, 8023>>,
       <<8025, 8025>>, <<8027, 8027>>, <<8029, 8029>>, <<8031, 8061>>, <<8064, 8116>>,
       <<8118, 8124>>, <<8126, 8126>>, <<8130, 8132>>, <<8134, 8140>>, <<8144, 8147>>,
       <<8150, 8155>>, <<8160, 8172>>, <<8178, 8180>>, <<8182, 8188>>, <<8304, 8305>>,
       <<8308, 8313>>, <<8319, 8329>>, <<8336, 8348>>, <<8450, 8450>>, <<8455, 8455>>,
       <<8458, 8467>>, <<8469, 8469>>, <<8473, 8477>>, <<8484, 8484>>, <<8486, 8486>>,
       <<8488, 8488>>, <<8490, 8493>>, <<8495, 8505>>, <<8508, 8511>>, <<8517, 8521>>,
       <<8526, 8526>>, <<8528, 8585>>, <<9312, 9371>>, <<9450, 9471>>, <<10102, 10131>>,
       <<11264, 11492>>, <<11499, 11502>>, <<11506, 11507>>, <<11517, 11517>>,
       <<11520, 11557>>, <<11559, 11559>>, <<11565, 11565>>, <<11568, 11623>>,
       <<11631, 11631>>, <<11648, 11670>>, <<11680, 11686>>, <<11688, 11694>>,
       <<11696, 11702>>, <<11704, 11710>>, <<11712, 11718>>, <<11720, 11726>>,
       <<11728, 11734>>, <<11736, 11742>>, <<11823, 11823>>, <<12293, 12295>>,
       <<12321, 12329>>, <<12337, 12341>>, <<12344, 12348>>, <<12353, 12438>>,
       <<12445, 12447>>, <<12449, 12538>>, <<12540, 12543>>, <<12549, 12591>>,
       <<12593, 12686>>, <<12690, 12693>>, <<12704, 12735>>, <<12784, 12799>>,
       <<12832, 12841>>, <<12872, 12879>>, <<12881, 12895>>, <<12928, 12937>>,
       <<12977, 12991>>, <<13312, 19903>>, <<19968, 42124>>, <<42192, 42237>>,
       <<42240, 42508>>, <<42512, 42539>>, <<42560, 42606>>, <<42623, 42653>>,
       <<42656, 42735>>, <<42775, 42783>>, <<42786, 42888>>, <<42891, 42954>>,
       <<42960, 42961>>, <<42963, 42963>>, <<42965, 42969>>, <<42994, 43009>>,
       <<43011, 43013>>, <<43015, 43018>>, <<43020, 43042>>, <<43056, 43061>>,
       <<43072, 43123>>, <<43138, 43187>>, <<43216, 43225>>, <<43250, 43255>>,
       <<43259, 43259>>, <<43261, 43262>>, <<43264, 43301>>, <<43312, 43334>>,
       <<43360, 43388>>, <<43396, 43442>>, <<43471, 43481>>, <<43488, 43492>>,
       <<43494, 43518>>, <<43520, 43560>>, <<43584, 43586>>, <<43588, 43595>>,
       <<43600, 43609>>, <<43616, 43638>>, <<43642, 43642>>, <<43646, 43695>>,
       <<43697, 43697>>, <<43701, 43702>>, <<43705, 43709>>, <<43712, 43712>>,
       <<43714, 43714>>, <<43739, 43741>>, <<43744, 43754>>, <<43762, 43764>>,
       <<43777, 43782>>, <<43785, 43790>>, <<43793, 43798>>, <<43808, 43814>>,
       <<43816, 43822>>, <<43824, 43866>>, <<43868, 43881>>, <<43888, 44002>>,
       <<44016, 44025>>, <<44032, 55203>>, <<55216, 55238>>, <<55243, 55291>>,
       <<63744, 64109>>, <<64112, 64217>>, <<64256, 64262>>, <<64275, 64279>>,
       <<64285, 64285>>, <<64287, 64296>>, <<64298, 64310>>, <<64312, 64316>>,
       <<64318, 64318>>, <<64320, 64321>>, <<64323, 64324>>, <<64326, 64433>>,
       <<64467, 64829>>, <<64848, 64911>>, <<64914, 64967>>, <<65008, 65019>>,
       <<65136, 65140>>, <<65142, 65276>>, <<65296, 65305>>, <<65313, 65338>>,
       <<65345, 65370>>, <<65382, 65470>>, <<65474, 65479>>, <<65482, 65487>>,
       <<65490, 65495>>, <<65498, 65500>>, <<65536, 65547>>, <<65549, 65574>>,
       <<65576, 65594>>, <<65596, 65597>>, <<65599, 65613>>, <<65616, 65629>>,
       <<65664, 65786>>, <<65799, 65843>>, <<65856, 65912>>, <<65930, 65931>>,
       <<66176, 66204>>, <<66208, 66256>>, <<66273, 66299>>, <<66304, 66339>>,
       <<66349, 66378>>, <<66384, 66421>>, <<66432, 66461>>, <<66464, 66499>>,
       <<66504, 66511>>, <<66513, 66517>>, <<66560, 66717>>, <<66720, 66729>>,
       <<66736, 66771>>, <<66776, 66811>>, <<66816, 66855>>, <<66864, 66915>>,
       <<66928, 66938>>, <<66940, 66954>>, <<66956, 66962>>, <<66964, 66965>>,
       <<66967, 66977>>, <<66979, 66993>>, <<66995, 67001>>, <<67003, 67004>>,
       <<67072, 67382>>, <<67392, 67413>>, <<67424, 67431>>, <<67456, 67461>>,
       <<67463, 67504>>, <<67506, 67514>>, <<67584, 67589>>, <<67592, 67592>>,
       <<67594, 67637>>, <<67639, 67640>>, <<67644, 67644>>, <<67647, 67669>>,
       <<67672, 67702>>, <<67705, 67742>>, <<67751, 67759>>, <<67808, 67826>>,
       <<67828, 67829>>, <<67835, 67867>>, <<67872, 67897>>, <<67968, 68023>>,
       <<68028, 68047>>, <<68050, 68096>>, <<68112, 68115>>, <<68117, 68119>>,
       <<68121, 68149>>, <<68160, 68168>>, <<68192, 68222>>, <<68224, 68255>>,
       <<68288, 68295>>, <<68297, 68324>>, <<68331, 68335>>, <<68352, 68405>>,
       <<68416, 68437>>, <<68440, 68466>>, <<68472, 68497>>, <<68521, 68527>>,
       <<68608, 68680>>, <<68736, 68786>>, <<68800, 68850>>, <<68858, 68899>>,
       <<68912, 68921>>, <<69216, 69246>>, <<69248, 69289>>, <<69296, 69297>>,
       <<69376, 69415>>, <<69424, 69445>>, <<69457, 69460>>, <<69488, 69505>>,
       <<69552, 69579>>, <<69600, 69622>>, <<69635, 69687>>, <<69714, 69743>>,
       <<69745, 69746>>, <<69749, 69749>>, <<69763, 69807>>, <<69840, 69864>>,
       <<69872, 69881>>, <<69891, 69926>>, <<69942, 69951>>, <<69956, 69956>>,
       <<69959, 69959>>, <<69968, 70002>>, <<70006, 70006>>, <<70019, 70066>>,
       <<70081, 70084>>, <<70096, 70106>>, <<70108, 70108>>, <<70113, 70132>>,
       <<70144, 70161>>, <<70163, 70187>>, <<70272, 70278>>, <<70280, 70280>>,
       <<70282, 70285>>, <<70287, 70301>>, <<70303, 70312>>, <<70320, 70366>>,
       <<70384, 70393>>, <<70405, 70412>>, <<70415, 70416>>, <<70419, 70440>>,
       <<70442, 70448>>, <<70450, 70451>>, <<70453, 70457>>, <<70461, 70461>>,
       <<70480, 70480>>, <<70493, 70497>>, <<70656, 70708>>, <<70727, 70730>>,
       <<70736, 70745>>, <<70751, 70753>>, <<70784, 70831>>, <<70852, 70853>>,
       <<70855, 70855>>, <<70864, 70873>>, <<71040, 71086>>, <<71128, 71131>>,
       <<71168, 71215>>, <<71236, 71236>>, <<71248, 71257>>, <<71296, 71338>>,
       <<71352, 71352>>, <<71360, 71369>>, <<71424, 71450>>, <<71472, 71483>>,
       <<71488, 71494>>, <<71680, 71723>>, <<71840, 71922>>, <<71935, 71942>>,
       <<71945, 71945>>, <<71948, 71955>>, <<71957, 71958>>, <<71960, 71983>>,
       <<71999, 71999>>, <<72001, 72001>>, <<72016, 72025>>, <<72096, 72103>>,
       <<72106, 72144>>, <<72161, 72161>>, <<72163, 72163>>, <<72192, 72192>>,
       <<72203, 72242>>, <<72250, 72250>>, <<72272, 72272>>, <<72284, 72329>>,
       <<72349, 72349>>, <<72368, 72440>>, <<72704, 72712>>, <<72714, 72750>>,
       <<72768, 72768>>, <<72784, 72812>>, <<72818, 72847>>, <<72960, 72966>>,
       <<72968, 72969>>, <<72971, 73008>>, <<73030, 73030>>, <<73040, 73049>>,
       <<73056, 73061>>, <<73063, 73064>>, <<73066, 73097>>, <<73112, 73112>>,
       <<73120, 73129>>, <<73440, 73458>>, <<73648, 73648>>, <<73664, 73684>>,
       <<73728, 74649>>, <<74752, 74862>>, <<74880, 75075>>, <<77712, 77808>>,
       <<77824, 78894>>, <<82944, 83526>>, <<92160, 92728>>, <<92736, 92766>>,
       <<92768, 92777>>, <<92784, 92862>>, <<92864, 92873>>, <<92880, 92909>>,
       <<92928, 92975>>, <<92992, 92995>>, <<93008, 93017>>, <<93019, 93025>>,
       <<93027, 93047>>, <<93053, 93071>>, <<93760, 93846>>, <<93952, 94026>>,
       <<94032, 94032>>, <<94099, 94111>>, <<94176, 94177>>, <<94179, 94179>>,
       <<94208, 100343>>, <<100352, 101589>>, <<101632, 101640>>, <<110576, 110579>>,
       <<110581, 110587>>, <<110589, 110590>>, <<110592, 110882>>, <<110928, 110930>>,
       <<110948, 110951>>, <<110960, 111355>>, <<113664, 113770>>, <<113776, 113788>>,
       <<113792, 113800>>, <<113808, 113817>>, <<119520, 119539>>, <<119648, 119672>>,
       <<119808, 119892>>, <<119894, 119964>>, <<119966, 119967>>, <<119970, 119970>>,
       <<119973, 119974>>, <<119977, 119980>>, <<119982, 119993>>, <<119995, 119995>>,
       <<119997, 120003>>, <<120005, 120069>>, <<120071, 120074>>, <<120077, 120084>>,
       <<120086, 120092>>, <<120094, 120121>>, <<120123, 120126>>, <<120128, 120132>>,
       <<120134, 120134>>, <<120138, 120144>>, <<120146, 120485>>, <<120488, 120512>>,
       <<120514, 120538>>, <<120540, 120570>>, <<120572, 120596>>, <<120598, 120628>>,
       <<120630, 120654>>, <<120656, 120686>>, <<120688, 120712>>, <<120714, 120744>>,
       <<120746, 120770>>, <<120772, 120779>>, <<120782, 120831>>, <<122624, 122654>>,
       <<123136, 123180>>, <<123191, 123197>>, <<123200, 123209>>, <<123214, 123214>>,
       <<123536, 123565>>, <<123584, 123627>>, <<123632, 123641>>, <<124896, 124902>>,
       <<124904, 124907>>, <<124909, 124910>>, <<124912, 124926>>, <<124928, 125124>>,
       <<125127, 125135>>, <<125184, 125251>>, <<125259, 125259>>, <<125264, 125273>>,
       <<126065, 126123>>, <<126125, 126127>>, <<126129, 126132>>, <<126209, 126253>>,
       <<126255, 126269>>, <<126464, 126467>>, <<126469, 126495>>, <<126497, 126498>>,
       <<126500, 126500>>, <<126503, 126503>>, <<126505, 126514>>, <<126516, 126519>>,
       <<126521, 126521>>, <<126523, 126523>>, <<126530, 126530>>, <<126535, 126535>>,
       <<126537, 126537>>, <<126539, 126539>>, <<126541, 126543>>, <<126545, 126546>>,
       <<126548, 126548>>, <<126551, 126551>>, <<126553, 126553>>, <<126555, 126555>>,
       <<126557, 126557>>, <<126559, 126559>>, <<126561, 126562>>, <<126564, 126564>>,
       <<126567, 126570>>, <<126572, 126578>>, <<126580, 126583>>, <<126585, 126588>>,
       <<126590, 126590>>, <<126592, 126601>>, <<126603, 126619>>, <<126625, 126627>>,
       <<126629, 126633>>, <<126635, 126651>>, <<127232, 127244>>, <<130032, 130041>>,
       <<131072, 173791>>, <<173824, 177976>>, <<177984, 178205>>, <<178208, 183969>>,
       <<183984, 191456>>, <<194560, 195101>>, <<196608, 201546>> >>

\* the code point of the digit zero of every run of ten decimal digits \d matches
DigitBlocks ==
    << 48, 1632, 1776, 1984, 2406, 2534, 2662, 2790, 2918, 3046, 3174, 3302, 3430, 3558, 3664,
       3792, 3872, 4160, 4240, 6112, 6160, 6470, 6608, 6784, 6800, 6992, 7088, 7232, 7248,
       42528, 43216, 43264, 43472, 43504, 43600, 44016, 65296, 66720, 68912, 69734, 69872,
       69942, 70096, 70384, 70736, 70864, 71248, 71360, 71472, 71904, 72016, 72784, 73040,
       73120, 92768, 92864, 93008, 120782, 120792, 120802, 120812, 120822, 123200, 123632,
       125264, 130032 >>

\* the one-to-one lower-case mappings, as <<first, last, step, offset>>: the code
\* points first, first + step, ..., last map to themselves plus offset
LowerRuns ==
    << <<65, 90, 1, 32>>, <<192, 214, 1, 32>>, <<216, 222, 1, 32>>, <<256, 302, 2, 1>>,
       <<306, 310, 2, 1>>, <<313, 327, 2, 1>>, <<330, 374, 2, 1>>, <<376, 376, 1, -121>>,
       <<377, 381, 2, 1>>, <<385, 385, 1, 210>>, <<386, 388, 2, 1>>, <<390, 390, 1, 206>>,
       <<391, 391, 1, 1>>, <<393, 394, 1, 205>>, <<395, 395, 1, 1>>, <<398, 398, 1, 79>>,
       <<399, 399, 1, 202>>, <<400, 400, 1, 203>>, <<401, 401, 1, 1>>, <<403, 403, 1, 205>>,
       <<404, 404, 1, 207>>, <<406, 406, 1, 211>>, <<407, 407, 1, 209>>, <<408, 408, 1, 1>>,
       <<412, 412, 1, 211>>, <<413, 413, 1, 213>>, <<415, 415, 1, 214>>, <<416, 420, 2, 1>>,
       <<422, 422, 1, 218>>, <<423, 423, 1, 1>>, <<425, 425, 1, 218>>, <<428, 428, 1, 1>>,
       <<430, 430, 1, 218>>, <<431, 431, 1, 1>>, <<433, 434, 1, 217>>, <<435, 437, 2, 1>>,
       <<439, 439, 1, 219>>, <<440, 440, 1, 1>>, <<444, 444, 1, 1>>, <<452, 452, 1, 2>>,
       <<453, 453, 1, 1>>, <<455, 455, 1, 2>>, <<456, 456, 1, 1>>, <<458, 458, 1, 2>>,
       <<459, 475, 2, 1>>, <<478, 494, 2, 1>>, <<497, 497, 1, 2>>, <<498, 500, 2, 1>>,
       <<502, 502, 1, -97>>, <<503, 503, 1, -56>>, <<504, 542, 2, 1>>, <<544, 544, 1, -130>>,
       <<546, 562, 2, 1>>, <<570, 570, 1, 10795>>, <<571, 571, 1, 1>>, <<573, 573, 1, -163>>,
       <<574, 574, 1, 10792>>, <<577, 577, 1, 1>>, <<579, 579, 1, -195>>, <<580, 580, 1, 69>>,
       <<581, 581, 1, 71>>, <<582, 590, 2, 1>>, <<880, 882, 2, 1>>, <<886, 886, 1, 1>>,
       <<895, 895, 1, 116>>, <<902, 902, 1, 38>>, <<904, 906, 1, 37>>, <<908, 908, 1, 64>>,
       <<910, 911, 1, 63>>, <<913, 929, 1, 32>>, <<931, 939, 1, 32>>, <<975, 975, 1, 8>>,
       <<984, 1006, 2, 1>>, <<1012, 1012, 1, -60>>, <<1015, 1015, 1, 1>>,
       <<1017, 1017, 1, -7>>, <<1018, 1018, 1, 1>>, <<1021, 1023, 1, -130>>,
       <<1024, 1039, 1, 80>>, <<1040, 1071, 1, 32>>, <<1120, 1152, 2, 1>>,
       <<1162, 1214, 2, 1>>, <<1216, 1216, 1, 15>>, <<1217, 1229, 2, 1>>, <<1232, 1326, 2, 1>>,
       <<1329, 1366, 1, 48>>, <<4256, 4293, 1, 7264>>, <<4295, 4295, 1, 7264>>,
       <<4301, 4301, 1, 7264>>, <<5024, 5103, 1, 38864>>, <<5104, 5109, 1, 8>>,
       <<7312, 7354, 1, -3008>>, <<7357, 7359, 1, -3008>>, <<7680, 7828, 2, 1>>,
       <<7838, 7838, 1, -7615>>, <<7840, 7934, 2, 1>>, <<7944, 7951, 1, -8>>,
       <<7960, 7965, 1, -8>>, <<7976, 7983, 1, -8>>, <<7992, 7999, 1, -8>>,
       <<8008, 8013, 1, -8>>, <<8025, 8031, 2, -8>>, <<8040, 8047, 1, -8>>,
       <<8072, 8079, 1, -8>>, <<8088, 8095, 1, -8>>, <<8104, 8111, 1, -8>>,
       <<8120, 8121, 1, -8>>, <<8122, 8123, 1, -74>>, <<8124, 8124, 1, -9>>,
       <<8136, 8139, 1, -86>>, <<8140, 8140, 1, -9>>, <<8152, 8153, 1, -8>>,
       <<8154, 8155, 1, -100>>, <<8168, 8169, 1, -8>>, <<8170, 8171, 1, -112>>,
       <<8172, 8172, 1, -7>>, <<8184, 8185, 1, -128>>, <<8186, 8187, 1, -126>>,
       <<8188, 8188, 1, -9>>, <<8486, 8486, 1, -7517>>, <<8490, 8490, 1, -8383>>,
       <<8491, 8491, 1, -8262>>, <<8498, 8498, 1, 28>>, <<8544, 8559, 1, 16>>,
       <<8579, 8579, 1, 1>>, <<9398, 9423, 1, 26>>, <<11264, 11311, 1, 48>>,
       <<11360, 11360, 1, 1>>, <<11362, 11362, 1, -10743>>, <<11363, 11363, 1, -3814>>,
       <<11364, 11364, 1, -10727>>, <<11367, 11371, 2, 1>>, <<11373, 11373, 1, -10780>>,
       <<11374, 11374, 1, -10749>>, <<11375, 11375, 1, -10783>>, <<11376, 11376, 1, -10782>>,
       <<11378, 11378, 1, 1>>, <<11381, 11381, 1, 1>>, <<11390, 11391, 1, -10815>>,
       <<11392, 11490, 2, 1>>, <<11499, 11501, 2, 1>>, <<11506, 11506, 1, 1>>,
       <<42560, 42604, 2, 1>>, <<42624, 42650, 2, 1>>, <<42786, 42798, 2, 1>>,
       <<42802, 42862, 2, 1>>, <<42873, 42875, 2, 1>>, <<42877, 42877, 1, -35332>>,
       <<42878, 42886, 2, 1>>, <<42891, 42891, 1, 1>>, <<42893, 42893, 1, -42280>>,
       <<42896, 42898, 2, 1>>, <<42902, 42920, 2, 1>>, <<42922, 42922, 1, -42308>>,
       <<42923, 42923, 1, -42319>>, <<42924, 42924, 1, -42315>>, <<42925, 42925, 1, -42305>>,
       <<42926, 42926, 1, -42308>>, <<42928, 42928, 1, -42258>>, <<42929, 42929, 1, -42282>>,
       <<42930, 42930, 1, -42261>>, <<42931, 42931, 1, 928>>, <<42932, 42946, 2, 1>>,
       <<42948, 42948, 1, -48>>, <<42949, 42949, 1, -42307>>, <<42950, 42950, 1, -35384>>,
       <<42951, 42953, 2, 1>>, <<42960, 42960, 1, 1>>, <<42966, 42968, 2, 1>>,
       <<42997, 42997, 1, 1>>, <<65313, 65338, 1, 32>>, <<66560, 66599, 1, 40>>,
       <<66736, 66771, 1, 40>>, <<66928, 66938, 1, 39>>, <<66940, 66954, 1, 39>>,
       <<66956, 66962, 1, 39>>, <<66964, 66965, 1, 39>>, <<68736, 68786, 1, 64>>,
       <<71840, 71871, 1, 32>>, <<93760, 93791, 1, 32>>, <<125184, 125217, 1, 34>> >>

\* the case-ignorable code points, as <<first, last>> ranges
CaseIgnorableRanges ==
    << <<39, 39>>, <<46, 46>>, <<58, 58>>, <<94, 94>>, <<96, 96>>, <<168, 168>>, <<173, 173>>,
       <<175, 175>>, <<180, 180>>, <<183, 184>>, <<688, 879>>, <<884, 885>>, <<890, 890>>,
       <<900, 901>>, <<903, 903>>, <<1155, 1161>>, <<1369, 1369>>, <<1375, 1375>>,
       <<1425, 1469>>, <<1471, 1471>>, <<1473, 1474>>, <<1476, 1477>>, <<1479, 1479>>,
       <<1524, 1524>>, <<1536, 1541>>, <<1552, 1562>>, <<1564, 1564>>, <<1600, 1600>>,
       <<1611, 1631>>, <<1648, 1648>>, <<1750, 1757>>, <<1759, 1768>>, <<1770, 1773>>,
       <<1807, 1807>>, <<1809, 1809>>, <<1840, 1866>>, <<1958, 1968>>, <<2027, 2037>>,
       <<2042, 2042>>, <<2045, 2045>>, <<2070, 2093>>, <<2137, 2139>>, <<2184, 2184>>,
       <<2192, 2193>>, <<2200, 2207>>, <<2249, 2306>>, <<2362, 2362>>, <<2364, 2364>>,
       <<2369, 2376>>, <<2381, 2381>>, <<2385, 2391>>, <<2402, 2403>>, <<2417, 2417>>,
       <<2433, 2433>>, <<2492, 2492>>, <<2497, 2500>>, <<2509, 2509>>, <<2530, 2531>>,
       <<2558, 2558>>, <<2561, 2562>>, <<2620, 2620>>, <<2625, 2626>>, <<2631, 2632>>,
       <<2635, 2637>>, <<2641, 2641>>, <<2672, 2673>>, <<2677, 2677>>, <<2689, 2690>>,
       <<2748, 2748>>, <<2753, 2757>>, <<2759, 2760>>, <<2765, 2765>>, <<2786, 2787>>,
       <<2810, 2815>>, <<2817, 2817>>, <<2876, 2876>>, <<2879, 2879>>, <<2881, 2884>>,
       <<2893, 2893>>, <<2901, 2902>>, <<2914, 2915>>, <<2946, 2946>>, <<3008, 3008>>,
       <<3021, 3021>>, <<3072, 3072>>, <<3076, 3076>>, <<3132, 3132>>, <<3134, 3136>>,
       <<3142, 3144>>, <<3146, 3149>>, <<3157, 3158>>, <<3170, 3171>>, <<3201, 3201>>,
       <<3260, 3260>>, <<3263, 3263>>, <<3270, 3270>>, <<3276, 3277>>, <<3298, 3299>>,
       <<3328, 3329>>, <<3387, 3388>>, <<3393, 3396>>, <<3405, 3405>>, <<3426, 3427>>,
       <<3457, 3457>>, <<3530, 3530>>, <<3538, 3540>>, <<3542, 3542>>, <<3633, 3633>>,
       <<3636, 3642>>, <<3654, 3662>>, <<3761, 3761>>, <<3764, 3772>>, <<3782, 3782>>,
       <<3784, 3789>>, <<3864, 3865>>, <<3893, 3893>>, <<3895, 3895>>, <<3897, 3897>>,
       <<3953, 3966>>, <<3968, 3972>>, <<3974, 3975>>, <<3981, 3991>>, <<3993, 4028>>,
       <<4038, 4038>>, <<4141, 4144>>, <<4146, 4151>>, <<4153, 4154>>, <<4157, 4158>>,
       <<4184, 4185>>, <<4190, 4192>>, <<4209, 4212>>, <<4226, 4226>>, <<4229, 4230>>,
       <<4237, 4237>>, <<4253, 4253>>, <<4348, 4348>>, <<4957, 4959>>, <<5906, 5908>>,
       <<5938, 5939>>, <<5970, 5971>>, <<6002, 6003>>, <<6068, 6069>>, <<6071, 6077>>,
       <<6086, 6086>>, <<6089, 6099>>, <<6103, 6103>>, <<6109, 6109>>, <<6155, 6159>>,
       <<6211, 6211>>, <<6277, 6278>>, <<6313, 6313>>, <<6432, 6434>>, <<6439, 6440>>,
       <<6450, 6450>>, <<6457, 6459>>, <<6679, 6680>>, <<6683, 6683>>, <<6742, 6742>>,
       <<6744, 6750>>, <<6752, 6752>>, <<6754, 6754>>, <<6757, 6764>>, <<6771, 6780>>,
       <<6783, 6783>>, <<6823, 6823>>, <<6832, 6862>>, <<6912, 6915>>, <<6964, 6964>>,
       <<6966, 6970>>, <<6972, 6972>>, <<6978, 6978>>, <<7019, 7027>>, <<7040, 7041>>,
       <<7074, 7077>>, <<7080, 7081>>, <<7083, 7085>>, <<7142, 7142>>, <<7144, 7145>>,
       <<7149, 7149>>, <<7151, 7153>>, <<7212, 7219>>, <<7222, 7223>>, <<7288, 7293>>,
       <<7376, 7378>>, <<7380, 7392>>, <<7394, 7400>>, <<7405, 7405>>, <<7412, 7412>>,
       <<7416, 7417>>, <<7468, 7530>>, <<7544, 7544>>, <<7579, 7679>>, <<8125, 8125>>,
       <<8127, 8129>>, <<8141, 8143>>, <<8157, 8159>>, <<8173, 8175>>, <<8189, 8190>>,
       <<8203, 8207>>, <<8216, 8217>>, <<8228, 8228>>, <<8231, 8231>>, <<8234, 8238>>,
       <<8288, 8292>>, <<8294, 8303>>, <<8305, 8305>>, <<8319, 8319>>, <<8336, 8348>>,
       <<8400, 8432>>, <<11388, 11389>>, <<11503, 11505>>, <<11631, 11631>>, <<11647, 11647>>,
       <<11744, 11775>>, <<11823, 11823>>, <<12293, 12293>>, <<12330, 12333>>,
       <<12337, 12341>>, <<12347, 12347>>, <<12441, 12446>>, <<12540, 12542>>,
       <<40981, 40981>>, <<42232, 42237>>, <<42508, 42508>>, <<42607, 42610>>,
       <<42612, 42621>>, <<42623, 42623>>, <<42652, 42655>>, <<42736, 42737>>,
       <<42752, 42785>>, <<42864, 42864>>, <<42888, 42890>>, <<42994, 42996>>,
       <<43000, 43001>>, <<43010, 43010>>, <<43014, 43014>>, <<43019, 43019>>,
       <<43045, 43046>>, <<43052, 43052>>, <<43204, 43205>>, <<43232, 43249>>,
       <<43263, 43263>>, <<43302, 43309>>, <<43335, 43345>>, <<43392, 43394>>,
       <<43443, 43443>>, <<43446, 43449>>, <<43452, 43453>>, <<43471, 43471>>,
       <<43493, 43494>>, <<43561, 43566>>, <<43569, 43570>>, <<43573, 43574>>,
       <<43587, 43587>>, <<43596, 43596>>, <<43632, 43632>>, <<43644, 43644>>,
       <<43696, 43696>>, <<43698, 43700>>, <<43703, 43704>>, <<43710, 43711>>,
       <<43713, 43713>>, <<43741, 43741>>, <<43756, 43757>>, <<43763, 43764>>,
       <<43766, 43766>>, <<43867, 43871>>, <<43881, 43883>>, <<44005, 44005>>,
       <<44008, 44008>>, <<44013, 44013>>, <<64286, 64286>>, <<64434, 64450>>,
       <<65024, 65039>>, <<65043, 65043>>, <<65056, 65071>>, <<65106, 65106>>,
       <<65109, 65109>>, <<65279, 65279>>, <<65287, 65287>>, <<65294, 65294>>,
       <<65306, 65306>>, <<65342, 65342>>, <<65344, 65344>>, <<65392, 65392>>,
       <<65438, 65439>>, <<65507, 65507>>, <<65529, 65531>>, <<66045, 66045>>,
       <<66272, 66272>>, <<66422, 66426>>, <<67456, 67461>>, <<67463, 67504>>,
       <<67506, 67514>>, <<68097, 68099>>, <<68101, 68102>>, <<68108, 68111>>,
       <<68152, 68154>>, <<68159, 68159>>, <<68325, 68326>>, <<68900, 68903>>,
       <<69291, 69292>>, <<69446, 69456>>, <<69506, 69509>>, <<69633, 69633>>,
       <<69688, 69702>>, <<69744, 69744>>, <<69747, 69748>>, <<69759, 69761>>,
       <<69811, 69814>>, <<69817, 69818>>, <<69821, 69821>>, <<69826, 69826>>,
       <<69837, 69837>>, <<69888, 69890>>, <<69927, 69931>>, <<69933, 69940>>,
       <<70003, 70003>>, <<70016, 70017>>, <<70070, 70078>>, <<70089, 70092>>,
       <<70095, 70095>>, <<70191, 70193>>, <<70196, 70196>>, <<70198, 70199>>,
       <<70206, 70206>>, <<70367, 70367>>, <<70371, 70378>>, <<70400, 70401>>,
       <<70459, 70460>>, <<70464, 70464>>, <<70502, 70508>>, <<70512, 70516>>,
       <<70712, 70719>>, <<70722, 70724>>, <<70726, 70726>>, <<70750, 70750>>,
       <<70835, 70840>>, <<70842, 70842>>, <<70847, 70848>>, <<70850, 70851>>,
       <<71090, 71093>>, <<71100, 71101>>, <<71103, 71104>>, <<71132, 71133>>,
       <<71219, 71226>>, <<71229, 71229>>, <<71231, 71232>>, <<71339, 71339>>,
       <<71341, 71341>>, <<71344, 71349>>, <<71351, 71351>>, <<71453, 71455>>,
       <<71458, 71461>>, <<71463, 71467>>, <<71727, 71735>>, <<71737, 71738>>,
       <<71995, 71996>>, <<71998, 71998>>, <<72003, 72003>>, <<72148, 72151>>,
       <<72154, 72155>>, <<72160, 72160>>, <<72193, 72202>>, <<72243, 72248>>,
       <<72251, 72254>>, <<72263, 72263>>, <<72273, 72278>>, <<72281, 72283>>,
       <<72330, 72342>>, <<72344, 72345>>, <<72752, 72758>>, <<72760, 72765>>,
       <<72767, 72767>>, <<72850, 72871>>, <<72874, 72880>>, <<72882, 72883>>,
       <<72885, 72886>>, <<73009, 73014>>, <<73018, 73018>>, <<73020, 73021>>,
       <<73023, 73029>>, <<73031, 73031>>, <<73104, 73105>>, <<73109, 73109>>,
       <<73111, 73111>>, <<73459, 73460>>, <<78896, 78904>>, <<92912, 92916>>,
       <<92976, 92982>>, <<92992, 92995>>, <<94031, 94031>>, <<94095, 94111>>,
       <<94176, 94177>>, <<94179, 94180>>, <<110576, 110579>>, <<110581, 110587>>,
       <<110589, 110590>>, <<113821, 113822>>, <<113824, 113827>>, <<118528, 118573>>,
       <<118576, 118598>>, <<119143, 119145>>, <<119155, 119170>>, <<119173, 119179>>,
       <<119210, 119213>>, <<119362, 119364>>, <<121344, 121398>>, <<121403, 121452>>,
       <<121461, 121461>>, <<121476, 121476>>, <<121499, 121503>>, <<121505, 121519>>,
       <<122880, 122886>>, <<122888, 122904>>, <<122907, 122913>>, <<122915, 122916>>,
       <<122918, 122922>>, <<123184, 123197>>, <<123566, 123566>>, <<123628, 123631>>,
       <<125136, 125142>>, <<125252, 125259>>, <<127995, 127999>>, <<917505, 917505>>,
       <<917536, 917631>>, <<917760, 917999>> >>

\* the cased code points that are not case-ignorable, as <<first, last>> ranges
CasedRanges ==
    << <<65, 90>>, <<97, 122>>, <<170, 170>>, <<181, 181>>, <<186, 186>>, <<192, 214>>,
       <<216, 246>>, <<248, 442>>, <<444, 447>>, <<452, 659>>, <<661, 687>>, <<880, 883>>,
       <<886, 887>>, <<891, 893>>, <<895, 895>>, <<902, 902>>, <<904, 906>>, <<908, 908>>,
       <<910, 929>>, <<931, 1013>>, <<1015, 1153>>, <<1162, 1327>>, <<1329, 1366>>,
       <<1376, 1416>>, <<4256, 4293>>, <<4295, 4295>>, <<4301, 4301>>, <<4304, 4346>>,
       <<4349, 4351>>, <<5024, 5109>>, <<5112, 5117>>, <<7296, 7304>>, <<7312, 7354>>,
       <<7357, 7359>>, <<7424, 7467>>, <<7531, 7543>>, <<7545, 7578>>, <<7680, 7957>>,
       <<7960, 7965>>, <<7968, 8005>>, <<8008, 8013>>, <<8016, 8023>>, <<8025, 8025>>,
       <<8027, 8027>>, <<8029, 8029>>, <<8031, 8061>>, <<8064, 8116>>, <<8118, 8124>>,
       <<8126, 8126>>, <<8130, 8132>>, <<8134, 8140>>, <<8144, 8147>>, <<8150, 8155>>,
       <<8160, 8172>>, <<8178, 8180>>, <<8182, 8188>>, <<8450, 8450>>, <<8455, 8455>>,
       <<8458, 8467>>, <<8469, 8469>>, <<8473, 8477>>, <<8484, 8484>>, <<8486, 8486>>,
       <<8488, 8488>>, <<8490, 8493>>, <<8495, 8500>>, <<8505, 8505>>, <<8508, 8511>>,
       <<8517, 8521>>, <<8526, 8526>>, <<8544, 8575>>, <<8579, 8580>>, <<9398, 9449>>,
       <<11264, 11387>>, <<11390, 11492>>, <<11499, 11502>>, <<11506, 11507>>,
       <<11520, 11557>>, <<11559, 11559>>, <<11565, 11565>>, <<42560, 42605>>,
       <<42624, 42651>>, <<42786, 42863>>, <<42865, 42887>>, <<42891, 42894>>,
       <<42896, 42954>>, <<42960, 42961>>, <<42963, 42963>>, <<42965, 42969>>,
       <<42997, 42998>>, <<43002, 43002>>, <<43824, 43866>>, <<43872, 43880>>,
       <<43888, 43967>>, <<64256, 64262>>, <<64275, 64279>>, <<65313, 65338>>,
       <<65345, 65370>>, <<66560, 66639>>, <<66736, 66771>>, <<66776, 66811>>,
       <<66928, 66938>>, <<66940, 66954>>, <<66956, 66962>>, <<66964, 66965>>,
       <<66967, 66977>>, <<66979, 66993>>, <<66995, 67001>>, <<67003, 67004>>,
       <<68736, 68786>>, <<68800, 68850>>, <<71840, 71903>>, <<93760, 93823>>,
       <<119808, 119892>>, <<119894, 119964>>, <<119966, 119967>>, <<119970, 119970>>,
       <<119973, 119974>>, <<119977, 119980>>, <<119982, 119993>>, <<119995, 119995>>,
       <<119997, 120003>>, <<120005, 120069>>, <<120071, 120074>>, <<120077, 120084>>,
       <<120086, 120092>>, <<120094, 120121>>, <<120123, 120126>>, <<120128, 120132>>,
       <<120134, 120134>>, <<120138, 120144>>, <<120146, 120485>>, <<120488, 120512>>,
       <<120514, 120538>>, <<120540, 120570>>, <<120572, 120596>>, <<120598, 120628>>,
       <<120630, 120654>>, <<120656, 120686>>, <<120688, 120712>>, <<120714, 120744>>,
       <<120746, 120770>>, <<120772, 120779>>, <<122624, 122633>>, <<122635, 122654>>,
       <<125184, 125251>>, <<127280, 127305>>, <<127312, 127337>>, <<127344, 127369>> >>

\* c lies in one of the <<first, last>> ranges of the table
InRanges(table, c) == \E k \in DOMAIN table : table[k][1] <= c /\ c <= table[k][2]

\* the ASCII part of the two classes
DigitSet == {c \in 0..127 : c >= DigitBlocks[1] /\ c < DigitBlocks[1] + 10}

WordSet == {c \in 0..127 : InRanges(WordRanges, c)}

\* \d of the re module on a str pattern: every Unicode decimal digit
IsDigit(c) ==
    IF c < 128 THEN c \in DigitSet
    ELSE \E k \in DOMAIN DigitBlocks : DigitBlocks[k] <= c /\ c < DigitBlocks[k] + 10

\* \w of the re module on a str pattern: every alphanumeric character and "_"
IsWord(c) == IF c < 128 THEN c \in WordSet ELSE InRanges(WordRanges, c)

\* the value float() gives the decimal digit c
DigitVal(c) ==
    c - DigitBlocks[CHOOSE k \in DOMAIN DigitBlocks :
                        DigitBlocks[k] <= c /\ c < DigitBlocks[k] + 10]

CapitalSigma == 931

\* the lower-case mapping of one character other than the capital sigma: a str
\* of one character, or of two for U+0130
LowerChar(c) ==
    IF c < 128 THEN (IF c >= Ord("A") /\ c <= Ord("Z") THEN <<c + 32>> ELSE <<c>>)
    ELSE IF c = 304 THEN <<105, 775>>
    ELSE LET runs == {k \in DOMAIN LowerRuns :
                         /\ LowerRuns[k][1] <= c
                         /\ c <= LowerRuns[k][2]
                         /\ (c - LowerRuns[k][1]) % LowerRuns[k][3] = 0}
         IN  IF runs = {} THEN <<c>>
             ELSE <<c + LowerRuns[CHOOSE k \in runs : TRUE][4]>>

IsCaseIgnorable(c) == InRanges(CaseIgnorableRanges, c)

\* applied to characters that are not case-ignorable only
IsCased(c) == InRanges(CasedRanges, c)

\* the capital sigma at position k is in the final-sigma context: the nearest
\* character before it that is not case-ignorable is cased, and the nearest
\* one after it, if any, is not
FinalSigma(t, k) ==
    LET before == {j \in 1..(k - 1) : ~IsCaseIgnorable(t[j])}
        after  == {j \in (k + 1)..Len(t) : ~IsCaseIgnorable(t[j])}
    IN  /\ before # {}
        /\ IsCased(t[CHOOSE j \in before : \A l \in before : l <= j])
        /\ after = {} \/ ~IsCased(t[CHOOSE j \in after : \A l \in after : j <= l])

\* the lower-case mapping of t[a..b] within t; the range is halved to keep the
\* recursion shallow
RECURSIVE LowerRange(_, _, _)
LowerRange(t, a, b) ==
    IF a > b THEN <<>>
    ELSE IF a = b
    THEN (IF t[a] = CapitalSigma
          THEN (IF FinalSigma(t, a) THEN <<962>> ELSE <<963>>)
          ELSE LowerChar(t[a]))
    ELSE LowerRange(t, a, (a + b) \div 2) \o LowerRange(t, ((a + b) \div 2) + 1, b)

\* str.lower()
Lower(t) == LowerRange(t, 1, Len(t))

\* is the character at 1-based position p of t a word character (FALSE outside t)
WordAt(t, p) == p >= 1 /\ p <= Len(t) /\ IsWord(t[p])

DigitAt(t, p) == p >= 1 /\ p <= Len(t) /\ IsDigit(t[p])

\* \b just before the character at position p
Boundary(t, p) == WordAt(t, p - 1) # WordAt(t, p)

\* every character of t[a..b] is a digit (TRUE for an empty range)
AllDigits(t, a, b) == \A k \in a..b : DigitAt(t, k)

-----------------------------------------------------------------------------
(* Natural numbers of any size, for the float arithmetic: a sequence of    *)
(* limbs below Base, least significant first, without a leading zero limb; *)
(* zero is <<>>.                                                           *)

LimbBits == 13

Base == 8192

PowersOfTwo == <<1, 2, 4, 8, 16, 32, 64, 128, 256, 512, 1024, 2048, 4096, 8192>>

\* 2^n for n in 0..13
TwoTo(n) == PowersOfTwo[n + 1]

\* n without its leading zero limbs
Strip(n) ==
    IF \A k \in DOMAIN n : n[k] = 0 THEN <<>>
    ELSE SubSeq(n, 1, CHOOSE k \in DOMAIN n :
                          n[k] # 0 /\ \A j \in (k + 1)..Len(n) : n[j] = 0)

Zeros(w) == [k \in 1..w |-> 0]

\* the limbs a..b of n * k + carry and the carry out of limb b, the carry going
\* into limb a; the range is halved to keep the recursion shallow
RECURSIVE MulRange(_, _, _, _, _)
MulRange(n, a, b, k, carry) ==
    IF a > b THEN <<<<>>, carry>>
    ELSE IF a = b
    THEN <<<<(n[a] * k + carry) % Base>>, (n[a] * k + carry) \div Base>>
    ELSE LET mid == (a + b) \div 2
             lo  == MulRange(n, a, mid, k, carry)
             hi  == MulRange(n, mid + 1, b, k, lo[2])
         IN  <<lo[1] \o hi[1], hi[2]>>

\* n * k + carry, for 0 < k < 2^17 and 0 <= carry < 2^17
MulAdd(n, k, carry) ==
    LET r == MulRange(n, 1, Len(n), k, carry)
    IN  r[1] \o (IF r[2] = 0 THEN <<>>
                 ELSE IF r[2] < Base THEN <<r[2]>>
                 ELSE <<r[2] % Base, r[2] \div Base>>)

\* the limbs b..a of the quotient of n by k, most significant first, and the
\* remainder left below limb a, the remainder r coming from above limb b, for
\* 0 <= r < k < 2^17; the range is halved to keep the recursion shallow
RECURSIVE DivRange(_, _, _, _, _)
DivRange(n, a, b, k, r) ==
    IF a > b THEN <<<<>>, r>>
    ELSE IF a = b
    THEN <<<<(r * Base + n[a]) \div k>>, (r * Base + n[a]) % k>>
    ELSE LET mid == (a + b) \div 2
             hi  == DivRange(n, mid + 1, b, k, r)
             lo  == DivRange(n, a, mid, k, hi[2])
         IN  <<hi[1] \o lo[1], lo[2]>>

Reverse(s) == [k \in DOMAIN s |-> s[Len(s) + 1 - k]]

\* <<quotient, remainder>> of n divided by k, for 0 < k < 2^17
DivSmall(n, k) ==
    LET qr == DivRange(n, 1, Len(n), k, 0)
    IN  <<Strip(Reverse(qr[1])), qr[2]>>

\* number of bits of n
BitLen(n) ==
    IF n = <<>> THEN 0
    ELSE LimbBits * (Len(n) - 1)
         + (CHOOSE b \in 1..LimbBits : TwoTo(b - 1) <= n[Len(n)] /\ n[Len(n)] < TwoTo(b))

\* n * 2^s
ShiftLeft(n, s) ==
    IF n = <<>> THEN <<>>
    ELSE Zeros(s \div LimbBits) \o MulAdd(n, TwoTo(s % LimbBits), 0)

\* n divided by 2^s for s >= 1: the quotient, the first bit shifted out (guard)
\* and whether any later bit shifted out is set (sticky)
ShiftRight(n, s) ==
    LET a       == (s - 1) \div LimbBits
        c       == ((s - 1) % LimbBits) + 1
        r       == SubSeq(n, a + 1, Len(n))
        dropped == IF r = <<>> THEN 0 ELSE r[1] % TwoTo(c)
    IN  [q      |-> Strip([k \in DOMAIN r |->
                              (r[k] \div TwoTo(c))
                              + (IF k < Len(r)
                                 THEN (r[k + 1] % TwoTo(c)) * TwoTo(LimbBits - c)
                                 ELSE 0)]),
         guard  |-> dropped \div TwoTo(c - 1) = 1,
         sticky |-> \/ dropped % TwoTo(c - 1) # 0
                    \/ \E k \in 1..a : k <= Len(n) /\ n[k] # 0]

\* the number written with the decimal digits that gave n followed by the
\* digits ds[a..b]
RECURSIVE FromDigits(_, _, _, _)
FromDigits(ds, a, b, n) ==
    IF a > b THEN n
    ELSE IF a = b THEN MulAdd(n, 10, DigitVal(ds[a]))
    ELSE LET first == FromDigits(ds, a, (a + b) \div 2, n)
         IN  IF first = <<>> THEN FromDigits(ds, ((a + b) \div 2) + 1, b, <<>>)
             ELSE FromDigits(ds, ((a + b) \div 2) + 1, b, first)

PowersOfFive == <<5, 25, 125, 625, 3125, 15625, 78125>>

\* <<the quotient of n by 5^f, whether the division left a remainder>>, dividing
\* by at most 5^7 at a time; the exponent is halved to keep the recursion shallow
RECURSIVE DivPow5(_, _)
DivPow5(n, f) ==
    IF f = 0 THEN <<n, FALSE>>
    ELSE IF f <= 7
    THEN <<DivSmall(n, PowersOfFive[f])[1], DivSmall(n, PowersOfFive[f])[2] # 0>>
    ELSE LET first == DivPow5(n, f \div 2)
             rest  == DivPow5(first[1], f - (f \div 2))
         IN  IF first[1] = <<>> THEN first
             ELSE <<rest[1], first[2] \/ rest[2]>>

\* n * 10^k
RECURSIVE MulPow10(_, _)
MulPow10(n, k) ==
    IF k = 0 THEN n
    ELSE IF k >= 4 THEN MulPow10(MulAdd(n, 10000, 0), k - 4)
    ELSE MulPow10(MulAdd(n, 10, 0), k - 1)

-----------------------------------------------------------------------------
(* Floats *)

Zero == [exponent |-> 0, fraction |-> <<0, 0, 0, 0>>]

Inf == [exponent |-> 2047, fraction |-> <<0, 0, 0, 0>>]

\* limb k of n, 0 beyond its length
Limb(n, k) == IF k <= Len(n) THEN n[k] ELSE 0

\* the float nearest to n * 2^x (or, when inexact, to a value between that and
\* (n + 1) * 2^x), ties to even; an inexact n has at least 55 bits
Round(n, x, inexact) ==
    IF n = <<>> THEN Zero
    ELSE LET L   == BitLen(n)
             E   == L - 1 + x
             s   == IF E >= 0 - 1022 THEN L - 53 ELSE (0 - 1074) - x
             sh  == ShiftRight(n, s)
             up  == sh.guard /\ (sh.sticky \/ inexact \/ (sh.q # <<>> /\ sh.q[1] % 2 = 1))
             m   == IF s <= 0 THEN ShiftLeft(n, 0 - s)
                    ELSE IF up THEN MulAdd(sh.q, 1, 1)
                    ELSE sh.q
             be0 == IF E >= 0 - 1022 THEN E + 1023 ELSE 0
             be  == IF BitLen(m) = 54 THEN be0 + 1
                    ELSE IF be0 = 0 /\ BitLen(m) = 53 THEN 1
                    ELSE be0
         IN  IF be >= 2047 THEN Inf
             ELSE [exponent |-> be,
                   fraction |-> <<Limb(m, 4), Limb(m, 3), Limb(m, 2), Limb(m, 1)>>]

\* the 53-bit significand of x: x is Significand(x) * 2^(max(exponent, 1) - 1075)
Significand(x) ==
    LET f == x.fraction
    IN  IF x.exponent = 0 THEN Strip(<<f[4], f[3], f[2], f[1]>>)
        ELSE <<f[4], f[3], f[2], f[1], 1>>

Comma == Ord(",")

Point == Ord(".")

NotComma(c) == c # Comma

\* num.replace(",", "")
StripCommas(s) == SelectSeq(s, NotComma)

\* float(s) for s of the shape digits or digits.digits: with d the number the
\* digits write and f the count of digits after the point, the float nearest to
\* d / 10^f = (d * 2^(13 w) div 5^f) * 2^(-13 w - f), w large enough to leave the
\* quotient 55 bits or more
ToFloat(s) ==
    LET dot == {k \in DOMAIN s : s[k] = Point}
        f   == IF dot = {} THEN 0 ELSE Len(s) - (CHOOSE k \in dot : TRUE)
        ds  == SelectSeq(s, IsDigit)
        d   == FromDigits(ds, 1, Len(ds), <<>>)
        w   == 5 + (f \div 4)
        qr  == DivPow5(Zeros(w) \o d, f)
    IN  IF d = <<>> THEN Zero
        ELSE IF f = 0 THEN Round(d, 0, FALSE)
        ELSE IF qr[1] = <<>> THEN Zero
        ELSE Round(qr[1], 0 - (LimbBits * w + f), qr[2])

\* the int 10^k
Pow10(k) == [digits |-> <<1>>, exp |-> k]

\* x * m for a float x and an int m that is a power of ten, at most 10^22 (a
\* float itself): the float nearest to the exact product
Times(x, m) ==
    IF x = Inf THEN Inf
    ELSE Round(MulPow10(Significand(x), m.exp),
               (IF x.exponent = 0 THEN 1 ELSE x.exponent) - 1075, FALSE)

\* x < y
Less(x, y) ==
    \/ x.exponent < y.exponent
    \/ /\ x.exponent = y.exponent
       /\ \E k \in 1..4 :
             /\ x.fraction[k] < y.fraction[k]
             /\ \A j \in 1..(k - 1) : x.fraction[j] = y.fraction[j]

-----------------------------------------------------------------------------
(* extract_numbers: re.findall of                                          *)
(*   \b\d{1,3}(?:,\d{3})*(?:\.\d+)?|\b\d+\.\d+|\b\d+                       *)
(* Nothing follows a branch, so each greedy quantifier keeps its longest   *)
(* match and the first branch that matches at a position is the match.     *)
(* Every branch needs \b and then a digit, so a match can only start at    *)
(* such a position and the scan passes over every other one.               *)

\* length of the run of digits starting at p, at most max long: greedy \d{1,max}
DigitRun(t, p, max) ==
    CHOOSE d \in 0..max :
        /\ AllDigits(t, p, p + d - 1)
        /\ d = max \/ ~DigitAt(t, p + d)

\* the positions at which \b holds and a digit follows, in increasing order
MatchStarts(t) ==
    LET IsStart(p) == Boundary(t, p) /\ DigitAt(t, p)
    IN  SelectSeq([p \in 1..Len(t) |-> p], IsStart)

\* position after the greedy (?:,\d{3})* starting at q
RECURSIVE GroupsEnd(_, _)
GroupsEnd(t, q) ==
    IF q <= Len(t) /\ t[q] = Comma /\ AllDigits(t, q + 1, q + 3)
    THEN GroupsEnd(t, q + 4)
    ELSE q

\* position after the greedy (?:\.\d+)? starting at q
FracEnd(t, q) ==
    IF q <= Len(t) /\ t[q] = Point /\ DigitAt(t, q + 1)
    THEN q + 1 + DigitRun(t, q + 1, Len(t))
    ELSE q

\* Each branch: the position after its match at p, or 0 when it does not match.
PlainAlt1End(t, p) ==
    IF Boundary(t, p) /\ DigitAt(t, p)
    THEN FracEnd(t, GroupsEnd(t, p + DigitRun(t, p, 3)))
    ELSE 0

PlainAlt2End(t, p) ==
    IF Boundary(t, p) /\ DigitAt(t, p)
    THEN LET q == p + DigitRun(t, p, Len(t))
         IN  IF q <= Len(t) /\ t[q] = Point /\ DigitAt(t, q + 1)
             THEN q + 1 + DigitRun(t, q + 1, Len(t))
             ELSE 0
    ELSE 0

PlainAlt3End(t, p) ==
    IF Boundary(t, p) /\ DigitAt(t, p) THEN p + DigitRun(t, p, Len(t)) ELSE 0

PlainMatchEnd(t, p) ==
    IF PlainAlt1End(t, p) # 0 THEN PlainAlt1End(t, p)
    ELSE IF PlainAlt2End(t, p) # 0 THEN PlainAlt2End(t, p)
    ELSE PlainAlt3End(t, p)

\* findall over the candidate positions starts[a..b], the scan standing at
\* position p: <<the matched substrings, left to right, where the scan stands
\* afterwards>>; the candidates are halved to keep the recursion shallow
RECURSIVE FindAllPlain(_, _, _, _, _)
FindAllPlain(t, starts, a, b, p) ==
    IF a > b THEN <<<<>>, p>>
    ELSE IF a = b
    THEN IF starts[a] < p \/ PlainMatchEnd(t, starts[a]) = 0 THEN <<<<>>, p>>
         ELSE <<<<SubSeq(t, starts[a], PlainMatchEnd(t, starts[a]) - 1)>>,
                PlainMatchEnd(t, starts[a])>>
    ELSE LET mid == (a + b) \div 2
             lo  == FindAllPlain(t, starts, a, mid, p)
             hi  == FindAllPlain(t, starts, mid + 1, b, lo[2])
         IN  <<lo[1] \o hi[1], hi[2]>>

extract_numbers(t) ==
    LET starts == MatchStarts(t)
        found  == FindAllPlain(t, starts, 1, Len(starts), 1)[1]
    IN  [k \in DOMAIN found |-> ToFloat(StripCommas(found[k]))]

-----------------------------------------------------------------------------
(* parse_number_with_suffix: re.finditer of                                *)
(*   \b(\d{1,3}(?:,\d{3})*(?:\.\d+)?|\d+\.\d+|\d+)([KkMmBbTt])\b           *)
(* Here a suffix letter and \b follow the number, so the engine backtracks *)
(* through every way a branch can match until the tail matches.  A branch  *)
(* is modelled by the set of positions at which it can end before a tail.  *)
(* At most one end is followed by a letter (any longer way would have to   *)
(* run over that letter), so the order in which the engine tries them does not      *)
(* change the match.  Every branch starts with a digit.                    *)

\* the (?:,\d{3})* can match exactly t[q0..q-1]
GroupsFit(t, q0, q) ==
    /\ q >= q0
    /\ (q - q0) % 4 = 0
    /\ \A g \in 0..(((q - q0) \div 4) - 1) :
          /\ t[q0 + 4 * g] = Comma
          /\ AllDigits(t, q0 + 4 * g + 1, q0 + 4 * g + 3)

\* \d{1,3}(?:,\d{3})*(?:\.\d+)? can match exactly t[p..e-1]
SuffixAlt1Fits(t, p, e) ==
    \E d \in 1..3 :
        /\ AllDigits(t, p, p + d - 1)
        /\ \E q \in (p + d)..e :
              /\ GroupsFit(t, p + d, q)
              /\ \/ e = q
                 \/ /\ t[q] = Point
                    /\ e >= q + 2
                    /\ AllDigits(t, q + 1, e - 1)

\* \d+\.\d+ can match exactly t[p..e-1]
SuffixAlt2Fits(t, p, e) ==
    \E q \in (p + 1)..(e - 2) :
        /\ AllDigits(t, p, q - 1)
        /\ t[q] = Point
        /\ AllDigits(t, q + 1, e - 1)

\* \d+ can match exactly t[p..e-1]
SuffixAlt3Fits(t, p, e) == e > p /\ AllDigits(t, p, e - 1)

\* suffix_multipliers, as the decimal exponent of each multiplier
suffix_multipliers ==
    [c \in Range(Str(<<"k", "K", "m", "M", "b", "B", "t", "T">>)) |->
        CASE c \in Range(Str(<<"k", "K">>)) -> 3
          [] c \in Range(Str(<<"m", "M">>)) -> 6
          [] c \in Range(Str(<<"b", "B">>)) -> 9
          [] c \in Range(Str(<<"t", "T">>)) -> 12]

\* SuffixTail without the closing \b
SuffixTail_NoBoundary(t, e) ==
    /\ e <= Len(t)
    /\ t[e] \in DOMAIN suffix_multipliers

\* ([KkMmBbTt])\b with the letter at position e
SuffixTail(t, e) ==
    /\ e <= Len(t)
    /\ t[e] \in DOMAIN suffix_multipliers
    /\ ~WordAt(t, e + 1)

\* the position of the suffix letter of the match that starts at p, or 0
SuffixMatchAt(t, p) ==
    LET tails == {e \in (p + 1)..Len(t) : SuffixTail(t, e)}
        ends1 == {e \in tails : SuffixAlt1Fits(t, p, e)}
        ends2 == {e \in tails : SuffixAlt2Fits(t, p, e)}
        ends3 == {e \in tails : SuffixAlt3Fits(t, p, e)}
    IN  IF ~(Boundary(t, p) /\ DigitAt(t, p)) THEN 0
        ELSE IF ends1 # {} THEN CHOOSE e \in ends1 : TRUE
        ELSE IF ends2 # {} THEN CHOOSE e \in ends2 : TRUE
        ELSE IF ends3 # {} THEN CHOOSE e \in ends3 : TRUE
        ELSE 0

\* the body of the for loop: (raw_num, scaled_value, multiplier) of one match
SuffixEntry(group1, group2) ==
    LET raw_num    == ToFloat(StripCommas(group1))
        multiplier == Pow10(suffix_multipliers[group2])
    IN  <<raw_num, Times(raw_num, multiplier), multiplier>>

\* finditer over the candidate positions starts[a..b], the scan standing at
\* position p: <<the results, where the scan stands afterwards>>
RECURSIVE FindIterSuffix(_, _, _, _, _)
FindIterSuffix(t, starts, a, b, p) ==
    IF a > b THEN <<<<>>, p>>
    ELSE IF a = b
    THEN IF starts[a] < p \/ SuffixMatchAt(t, starts[a]) = 0 THEN <<<<>>, p>>
         ELSE <<<<SuffixEntry(SubSeq(t, starts[a], SuffixMatchAt(t, starts[a]) - 1),
                              t[SuffixMatchAt(t, starts[a])])>>,
                SuffixMatchAt(t, starts[a]) + 1>>
    ELSE LET mid == (a + b) \div 2
             lo  == FindIterSuffix(t, starts, a, mid, p)
             hi  == FindIterSuffix(t, starts, mid + 1, b, lo[2])
         IN  <<lo[1] \o hi[1], hi[2]>>

parse_number_with_suffix(t) ==
    LET starts == MatchStarts(t)
    IN  FindIterSuffix(t, starts, 1, Len(starts), 1)[1]

-----------------------------------------------------------------------------
(* find_scale_factor *)

W_million  == Str(<<"m", "i", "l", "l", "i", "o", "n">>)
W_billion  == Str(<<"b", "i", "l", "l", "i", "o", "n">>)
W_thousand == Str(<<"t", "h", "o", "u", "s", "a", "n", "d">>)

\* SCALE_KEYWORDS in the dictionary's order, each with the exponent of its factor
SCALE_KEYWORDS ==
    << <<W_million, 6>>,  <<W_million \o Str(<<"s">>), 6>>,
       <<W_billion, 9>>,  <<W_billion \o Str(<<"s">>), 9>>,
       <<W_thousand, 3>>, <<W_thousand \o Str(<<"s">>), 3>> >>

InSpace == Str(<<"i", "n", " ">>)

OpenParen == Str(<<"(">>)

CloseParen == Str(<<")">>)

\* [f"in {word}", f"({word})"]
PatternsOf(word) == <<InSpace \o word, OpenParen \o word \o CloseParen>>

\* str.rfind: the greatest 0-based index at which pat occurs in t, or -1
RFind(t, pat) ==
    LET at == {k \in 0..(Len(t) - Len(pat)) : \A j \in 1..Len(pat) : t[k + j] = pat[j]}
    IN  IF at = {} THEN 0 - 1 ELSE CHOOSE k \in at : \A j \in at : j <= k

\* ScaleStep with the index compared to -1 instead of last_pos
ScaleStep_AnyFound(text_lower, pattern, factor, st) ==
    LET index == RFind(text_lower, pattern)
    IN  IF index > 0 - 1 THEN <<index, factor>> ELSE st

\* one pass of the inner loop body: the (last_pos, chosen_factor) it leaves
ScaleStep(text_lower, pattern, factor, st) ==
    LET index == RFind(text_lower, pattern)
    IN  IF index > st[1] THEN <<index, factor>> ELSE st

\* the two nested loops, from keyword w and pattern j on
RECURSIVE ScaleLoop(_, _, _, _)
ScaleLoop(text_lower, w, j, st) ==
    IF w > Len(SCALE_KEYWORDS) THEN st
    ELSE IF j > 2 THEN ScaleLoop(text_lower, w + 1, 1, st)
    ELSE ScaleLoop(text_lower, w, j + 1,
                   ScaleStep(text_lower, PatternsOf(SCALE_KEYWORDS[w][1])[j],
                             Pow10(SCALE_KEYWORDS[w][2]), st))

find_scale_factor(t) == ScaleLoop(Lower(t), 1, 1, <<0 - 1, Pow10(0)>>)[2]

-----------------------------------------------------------------------------
(* The two ranking functions *)

\* a page as page.extract_text() gives it: a text, or None (has = FALSE)
Page(t)  == [has |-> TRUE, text |-> t]
NoText   == [has |-> FALSE, text |-> <<>>]

\* "if not text: continue" is taken for None and for the empty string
Falsy(page) == ~page.has \/ page.text = <<>>

\* lines 107-109: one (scaled_value, i + 1, raw_num, multiplier) per suffix match
SuffixEntries(sn, page_no) ==
    [k \in DOMAIN sn |-> <<sn[k][2], page_no, sn[k][1], sn[k][3]>>]

\* line 110: suffix_values, the set of raw_num of the page's suffix matches
SuffixValues(sn) == {sn[k][1] : k \in DOMAIN sn}

\* AlreadyHandled with the membership test left out
AlreadyHandled_Never(num, suffix_values) == FALSE

\* "if num in suffix_values: continue"
AlreadyHandled(num, suffix_values) == num \in suffix_values

\* lines 115-120, over nums[a..b]: plain numbers under the page's scale factor
RECURSIVE PlainLoop(_, _, _, _, _, _)
PlainLoop(nums, a, b, suffix_values, factor, page_no) ==
    IF a > b THEN <<>>
    ELSE IF a = b
    THEN IF AlreadyHandled(nums[a], suffix_values) THEN <<>>
         ELSE <<<<Times(nums[a], factor), page_no, nums[a], factor>>>>
    ELSE PlainLoop(nums, a, (a + b) \div 2, suffix_values, factor, page_no)
         \o PlainLoop(nums, ((a + b) \div 2) + 1, b, suffix_values, factor, page_no)

\* everything one pass of the scaled loop body appends to top_values
PageEntries(t, page_no) ==
    SuffixEntries(parse_number_with_suffix(t), page_no)
    \o PlainLoop(extract_numbers(t), 1, Len(extract_numbers(t)),
                 SuffixValues(parse_number_with_suffix(t)),
                 find_scale_factor(t), page_no)

\* everything one pass of the raw loop body appends to raw_values
RawPageEntries(t, page_no) ==
    LET nums == extract_numbers(t)
    IN  [k \in DOMAIN nums |-> <<nums[k], page_no>>]

\* InsertDesc that puts e in front of the elements with an equal key
RECURSIVE InsertDesc_Unstable(_, _)
InsertDesc_Unstable(sorted, e) ==
    IF sorted = <<>> THEN <<e>>
    ELSE IF ~Less(e[1], Head(sorted)[1]) THEN <<e>> \o sorted
    ELSE <<Head(sorted)>> \o InsertDesc_Unstable(Tail(sorted), e)

\* where list.sort(reverse=True, key=x[0]) puts e in an already sorted list that
\* holds the elements which came before e: after every element whose key is >= e's
RECURSIVE InsertDesc(_, _)
InsertDesc(sorted, e) ==
    IF sorted = <<>> THEN <<e>>
    ELSE IF Less(Head(sorted)[1], e[1]) THEN <<e>> \o sorted
    ELSE <<Head(sorted)>> \o InsertDesc(Tail(sorted), e)

\* list.sort(reverse=True, key=lambda x: x[0]): descending and stable
RECURSIVE SortDesc(_)
SortDesc(s) ==
    IF s = <<>> THEN <<>>
    ELSE InsertDesc(SortDesc(SubSeq(s, 1, Len(s) - 1)), s[Len(s)])

\* the slice s[:n] of a Python list, for any integer n
Slice(s, n) ==
    IF n >= 0
    THEN SubSeq(s, 1, IF n < Len(s) THEN n ELSE Len(s))
    ELSE SubSeq(s, 1, IF Len(s) + n > 0 THEN Len(s) + n ELSE 0)

-----------------------------------------------------------------------------
(* Inputs *)

MaxPages     == 2   \* pages per document
MaxTopN      == 2   \* greatest --top value
MaxPieces    == 4   \* pieces per tokenizer text
MaxUniPieces == 3   \* pieces per tokenizer text with characters beyond ASCII
MaxKwPieces  == 3   \* pieces per scale-keyword text

TxtRawVsScaled ==
    Str(<<"5", "0", "0", "M", " ", "v", "s", " ", "9", "9", "9", "9", "9", "9">>)

TxtNoDouble ==
    Str(<<"(", "i", "n", " ", "m", "i", "l", "l", "i", "o", "n", "s", ")", "\n", "T", "o", "t", "a", "l", ":", " ", "1", "3", "4", ".", "0", "M", "\n", "O", "t", "h", "e", "r", ":", " ", "1", "2">>)

TxtRevenue ==
    Str(<<"R", "e", "v", "e", "n", "u", "e", ":", " ", "5", "6", ".", "7", "M">>)

TxtCount == Str(<<"C", "o", "u", "n", "t", ":", " ", "4", "2">>)

TxtLongSuffixed == Str(<<"1", "2", "3", "4", "M">>)

TxtTie == Str(<<"1", "0", "k", " ", "1", "0", ",", "0", "0", "0">>)

TxtTen == Str(<<"1", "0">>)

TxtFiveHundred == Str(<<"5", "0", "0">>)

TxtThousand == Str(<<"1", ",", "0", "0", "0">>)

TxtNoNumber == Str(<<"n", "/", "a">>)

TxtThousandsThenBillions ==
    Str(<<"(", "i", "n", " ", "t", "h", "o", "u", "s", "a", "n", "d", "s", ")", " ", "7", " ", "(", "i", "n", " ", "b", "i", "l", "l", "i", "o", "n", "s", ")">>)

TxtSuffixThenLetter == Str(<<"5", "M", "b">>)

TxtSuffixUnderKeyword ==
    Str(<<"(", "i", "n", " ", "t", "h", "o", "u", "s", "a", "n", "d", "s", ")", " ", "2", "M", " ", "3">>)

\* texts whose products are not exact: 4.1 * 10^6 and 16.1 * 10^3 as floats
\* are 4099999.9999999995 and 16100.000000000002
TxtRoundedSuffix == Str(<<"4", ".", "1", "M">>)

TxtFourPointOneMillion == Str(<<"4", ",", "1", "0", "0", ",", "0", "0", "0">>)

TxtRoundedBoth == TxtRoundedSuffix \o Str(<<" ">>) \o TxtFourPointOneMillion

TxtRoundedContext ==
    Str(<<"(", "i", "n", " ", "t", "h", "o", "u", "s", "a", "n", "d", "s", ")", " ", "1", "6", ".", "1", " ", "1", "6", ",", "1", "0", "0", "k">>)

\* a number of seventeen digits, more than a float holds
TxtSeventeenDigits ==
    Str(<<"9", ",", "0", "0", "7", ",", "1", "9", "9", ",", "2", "5", "4", ",", "7", "4", "0", ",", "9", "9", "3", " ", "0", ".", "1", "2", "3", "4", "5", "6", "7", "8", "9", "0", "1", "2", "3", "4", "5", "6", "7", "8", "9", "T">>)

\* page texts of the document-level runs
PageTexts ==
    {TxtRawVsScaled, TxtNoDouble, TxtRevenue, TxtCount, TxtLongSuffixed, TxtTie,
     TxtTen, TxtFiveHundred, TxtThousand, TxtNoNumber}

Pages == {NoText, Page(<<>>)} \cup {Page(t) : t \in PageTexts}

\* three pages whose scaled values are 10, 1000 and 500
DocOrdering == <<Page(TxtTen), Page(TxtThousand), Page(TxtFiveHundred)>>

\* two pages whose scaled values are 4099999.9999999995 and 4100000
DocRounded == <<Page(TxtRoundedSuffix), Page(TxtFourPointOneMillion)>>

Docs == UNION {[1..n -> Pages] : n \in 0..MaxPages} \cup {DocOrdering, DocRounded}

TopNs == (0 - 1)..MaxTopN

\* pieces the tokenizer texts are put together from
TokPieces ==
    {Str(<<"1">>), Str(<<"2", "3", "4">>), Str(<<"0">>), Str(<<",">>), Str(<<".">>),
     Str(<<"M">>), Str(<<"k">>), Str(<<" ">>)}

\* the same with a superscript one (U+00B9, alphanumeric but no decimal digit),
\* a capital E with acute (U+00C9), a fullwidth digit three (U+FF13) and an
\* Arabic-Indic digit seven (U+0667)
UniPieces ==
    {Str(<<"5">>), Str(<<".">>), Str(<<"M">>), Str(<<" ">>),
     <<185>>, <<201>>, <<65299>>, <<1639>>}

\* pieces the scale-keyword texts are put together from; the last two hold a
\* capital I with dot above (U+0130) and a capital alpha and sigma
KwPieces ==
    {Str(<<"(", "i", "n", " ", "t", "h", "o", "u", "s", "a", "n", "d", "s", ")">>),
     Str(<<"(", "i", "n", " ", "b", "i", "l", "l", "i", "o", "n", "s", ")">>),
     Str(<<"i", "n", " ", "m", "i", "l", "l", "i", "o", "n", "s">>),
     Str(<<"(", "M", "i", "l", "l", "i", "o", "n", ")">>),
     Str(<<"I", "N", " ", "B", "I", "L", "L", "I", "O", "N">>),
     Str(<<" ", "1", "2", " ">>),
     <<304>> \o Str(<<"n", " ", "t", "h", "o", "u", "s", "a", "n", "d">>),
     <<913, 931>>}

\* all concatenations of at most n pieces
RECURSIVE Concats(_, _)
Concats(pieces, n) ==
    IF n = 0 THEN {<<>>}
    ELSE LET shorter == Concats(pieces, n - 1)
         IN  shorter \cup {a \o b : a \in shorter, b \in pieces}

\* the non-empty texts of the one-page runs
Texts ==
    (Concats(TokPieces, MaxPieces) \cup Concats(UniPieces, MaxUniPieces)
     \cup Concats(KwPieces, MaxKwPieces)
     \cup PageTexts
     \cup {TxtThousandsThenBillions, TxtSuffixThenLetter, TxtSuffixUnderKeyword,
           TxtRoundedSuffix, TxtFourPointOneMillion, TxtRoundedBoth,
           TxtRoundedContext, TxtSeventeenDigits}) \ {<<>>}

-----------------------------------------------------------------------------
(* Document-level runs: the main block calls find_largest_number_in_pdf    *)
(* and then find_largest_raw_numbers on the same document.  One action is  *)
(* one pass of a page loop, or the sort and return after it.               *)

Init ==
    /\ pdf \in Docs
    /\ top_n \in TopNs
    /\ pc = "scaled"
    /\ i = 0
    /\ top_values = <<>>
    /\ raw_values = <<>>
    /\ top_scaled = <<>>
    /\ top_raw = <<>>
    /\ text = <<>>
    /\ numbers = <<>>
    /\ suffix_numbers = <<>>
    /\ scale_factor = Pow10(0)

BodyVars == <<text, numbers, suffix_numbers, scale_factor>>

\* ScaledSkipPage with break in place of continue
ScaledSkipPage_Break ==
    /\ pc = "scaled"
    /\ i < Len(pdf)
    /\ Falsy(pdf[i + 1])
    /\ i' = Len(pdf)
    /\ UNCHANGED <<pdf, top_n, pc, top_values, raw_values, top_scaled, top_raw, BodyVars>>

\* find_largest_number_in_pdf, a page without text: continue
ScaledSkipPage ==
    /\ pc = "scaled"
    /\ i < Len(pdf)
    /\ Falsy(pdf[i + 1])
    /\ i' = i + 1
    /\ UNCHANGED <<pdf, top_n, pc, top_values, raw_values, top_scaled, top_raw, BodyVars>>

\* ScaledPage with suffix_values created once, before the loop, and so shared
\* by all pages
ScaledPage_SharedSuffixSet ==
    /\ pc = "scaled"
    /\ i < Len(pdf)
    /\ ~Falsy(pdf[i + 1])
    /\ top_values' =
          top_values
          \o SuffixEntries(parse_number_with_suffix(pdf[i + 1].text), i + 1)
          \o PlainLoop(extract_numbers(pdf[i + 1].text), 1,
                       Len(extract_numbers(pdf[i + 1].text)),
                       UNION {SuffixValues(parse_number_with_suffix(pdf[p].text)) :
                                 p \in {q \in 1..(i + 1) : ~Falsy(pdf[q])}},
                       find_scale_factor(pdf[i + 1].text), i + 1)
    /\ i' = i + 1
    /\ UNCHANGED <<pdf, top_n, pc, raw_values, top_scaled, top_raw, BodyVars>>

\* find_largest_number_in_pdf, the loop body for a page with text
ScaledPage ==
    /\ pc = "scaled"
    /\ i < Len(pdf)
    /\ ~Falsy(pdf[i + 1])
    /\ top_values' = top_values \o PageEntries(pdf[i + 1].text, i + 1)
    /\ i' = i + 1
    /\ UNCHANGED <<pdf, top_n, pc, raw_values, top_scaled, top_raw, BodyVars>>

\* find_largest_number_in_pdf, after the loop: sort in place and return the slice
ScaledReturn ==
    /\ pc = "scaled"
    /\ i = Len(pdf)
    /\ top_values' = SortDesc(top_values)
    /\ top_scaled' = Slice(SortDesc(top_values), top_n)
    /\ pc' = "raw"
    /\ i' = 0
    /\ UNCHANGED <<pdf, top_n, raw_values, top_raw, BodyVars>>

\* find_largest_raw_numbers, a page without text: continue
RawSkipPage ==
    /\ pc = "raw"
    /\ i < Len(pdf)
    /\ Falsy(pdf[i + 1])
    /\ i' = i + 1
    /\ UNCHANGED <<pdf, top_n, pc, top_values, raw_values, top_scaled, top_raw, BodyVars>>

\* find_largest_raw_numbers, the loop body for a page with text
RawPage ==
    /\ pc = "raw"
    /\ i < Len(pdf)
    /\ ~Falsy(pdf[i + 1])
    /\ raw_values' = raw_values \o RawPageEntries(pdf[i + 1].text, i + 1)
    /\ i' = i + 1
    /\ UNCHANGED <<pdf, top_n, pc, top_values, top_scaled, top_raw, BodyVars>>

\* find_largest_raw_numbers, after the loop: sort in place and return the slice
RawReturn ==
    /\ pc = "raw"
    /\ i = Len(pdf)
    /\ raw_values' = SortDesc(raw_values)
    /\ top_raw' = Slice(SortDesc(raw_values), top_n)
    /\ pc' = "done"
    /\ UNCHANGED <<pdf, top_n, i, top_values, top_scaled, BodyVars>>

Next ==
    \/ ScaledSkipPage
    \/ ScaledPage
    \/ ScaledReturn
    \/ RawSkipPage
    \/ RawPage
    \/ RawReturn

Spec == Init /\ [][Next]_vars

-----------------------------------------------------------------------------
(* One-page runs: the loop body of find_largest_number_in_pdf on the only  *)
(* page of a document, statement by statement, with the body's local       *)
(* variables text, suffix_numbers, numbers and scale_factor as state.      *)

Untouched == <<pdf, top_n, i, raw_values, top_scaled, top_raw>>

BodyInit ==
    /\ text \in Texts
    /\ pdf = <<Page(text)>>
    /\ top_n = 1
    /\ pc = "text"
    /\ i = 0
    /\ top_values = <<>>
    /\ suffix_numbers = <<>>
    /\ numbers = <<>>
    /\ scale_factor = Pow10(0)
    /\ raw_values = <<>>
    /\ top_scaled = <<>>
    /\ top_raw = <<>>

\* lines 105-110: the suffix matches and their entries
BodyParseSuffix ==
    /\ pc = "text"
    /\ suffix_numbers' = parse_number_with_suffix(text)
    /\ top_values' = top_values \o SuffixEntries(parse_number_with_suffix(text), i + 1)
    /\ pc' = "suffixed"
    /\ UNCHANGED <<text, numbers, scale_factor, Untouched>>

\* line 113
BodyExtract ==
    /\ pc = "suffixed"
    /\ numbers' = extract_numbers(text)
    /\ pc' = "extracted"
    /\ UNCHANGED <<text, suffix_numbers, scale_factor, top_values, Untouched>>

\* line 114
BodyScaleFactor ==
    /\ pc = "extracted"
    /\ scale_factor' = find_scale_factor(text)
    /\ pc' = "resolved"
    /\ UNCHANGED <<text, numbers, suffix_numbers, top_values, Untouched>>

\* lines 115-120: the loop over the plain numbers
BodyPlainLoop ==
    /\ pc = "resolved"
    /\ top_values' = top_values
                     \o PlainLoop(numbers, 1, Len(numbers), SuffixValues(suffix_numbers),
                                  scale_factor, i + 1)
    /\ pc' = "page_done"
    /\ UNCHANGED <<text, numbers, suffix_numbers, scale_factor, Untouched>>

BodyNext ==
    \/ BodyParseSuffix
    \/ BodyExtract
    \/ BodyScaleFactor
    \/ BodyPlainLoop

BodySpec == BodyInit /\ [][BodyNext]_vars

-----------------------------------------------------------------------------
(* What the specification calls a numeric token, stated without the        *)
(* regular expressions: a comma-grouped number, a bare decimal number or a *)
(* bare integer, taken whole.                                              *)

InText(t, k) == k >= 1 /\ k <= Len(t)

\* t[a..b] is one or more digits
IsInteger(t, a, b) ==
    a <= b /\ \A k \in a..b : InText(t, k) /\ IsDigit(t[k])

\* t[a..b] is one to three digits followed by groups of a comma and three digits
IsCommaGrouped(t, a, b) ==
    \E first \in 1..3 :
        /\ IsInteger(t, a, a + first - 1)
        /\ a + first - 1 <= b
        /\ (b - (a + first - 1)) % 4 = 0
        /\ \A k \in (a + first)..b :
              /\ InText(t, k)
              /\ IF (k - (a + first)) % 4 = 0 THEN t[k] = Comma ELSE IsDigit(t[k])

\* t[a..b] has the shape of a number: an integer part, plain or comma-grouped,
\* and optionally a decimal point with one or more digits
IsNumber(t, a, b) ==
    \E m \in a..b :
        /\ IsInteger(t, a, m) \/ IsCommaGrouped(t, a, m)
        /\ m = b \/ (InText(t, m + 1) /\ t[m + 1] = Point /\ IsInteger(t, m + 2, b))

\* a token starts at a digit that no letter, digit or underscore precedes
TokenStart(t, p) ==
    /\ InText(t, p)
    /\ IsDigit(t[p])
    /\ p = 1 \/ ~IsWord(t[p - 1])

\* the last position of the token that starts at p: the longest number from p
TokenLast(t, p) ==
    CHOOSE b \in p..Len(t) :
        /\ IsNumber(t, p, b)
        /\ \A c \in (b + 1)..Len(t) : ~IsNumber(t, p, c)

\* the tokens from position p on, left to right, as <<first, last>>
RECURSIVE TokensFrom(_, _)
TokensFrom(t, p) ==
    IF p > Len(t) THEN <<>>
    ELSE IF TokenStart(t, p)
         THEN <<<<p, TokenLast(t, p)>>>> \o TokensFrom(t, TokenLast(t, p) + 1)
         ELSE TokensFrom(t, p + 1)

\* the value written at t[a..b]
ValueAt(t, a, b) == ToFloat(StripCommas(SubSeq(t, a, b)))

\* the values of the tokens of t, left to right
TokenValues(t) ==
    LET toks == TokensFrom(t, 1)
    IN  [k \in DOMAIN toks |-> ValueAt(t, toks[k][1], toks[k][2])]

\* the decimal exponent the specification gives each suffix letter
SuffixExponent(c) ==
    CASE c \in {Ord("K"), Ord("k")} -> 3
      [] c \in {Ord("M"), Ord("m")} -> 6
      [] c \in {Ord("B"), Ord("b")} -> 9
      [] c \in {Ord("T"), Ord("t")} -> 12

SuffixLetters == Range(Str(<<"K", "k", "M", "m", "B", "b", "T", "t">>))

\* e holds a suffix letter that ends a word and directly follows a number
\* which starts at a token start
SuffixSite(t, e) ==
    /\ InText(t, e)
    /\ t[e] \in SuffixLetters
    /\ e = Len(t) \/ ~IsWord(t[e + 1])
    /\ \E p \in 1..(e - 1) : TokenStart(t, p) /\ IsNumber(t, p, e - 1)

\* the first position of the number in front of the suffix letter at e
SiteFirst(t, e) ==
    CHOOSE p \in 1..(e - 1) :
        /\ TokenStart(t, p) /\ IsNumber(t, p, e - 1)
        /\ \A q \in 1..(p - 1) : ~(TokenStart(t, q) /\ IsNumber(t, q, e - 1))

\* the elements of a set of integers in increasing order
Ascending(S) ==
    [k \in 1..Cardinality(S) |-> CHOOSE x \in S : Cardinality({y \in S : y < x}) = k - 1]

\* (raw_value, scaled_value, multiplier) of every suffixed number, left to right
ExpectedSuffixEntries(t) ==
    LET sites == Ascending({e \in 1..Len(t) : SuffixSite(t, e)})
    IN  [k \in DOMAIN sites |->
            LET e == sites[k]
                v == ValueAt(t, SiteFirst(t, e), e - 1)
            IN  <<v, Times(v, Pow10(SuffixExponent(t[e]))), Pow10(SuffixExponent(t[e]))>>]

\* the pages of the document that have text, by 1-based position
TextPages == {p \in 1..Len(pdf) : pdf[p].has /\ pdf[p].text # <<>>}

\* x <= y
AtMost(x, y) == x = y \/ Less(x, y)

\* the float a decimal numeral denotes
Num(s) == ToFloat(Str(s))

-----------------------------------------------------------------------------
(* Claims *)

\* the literal values written on page p
LiteralsOn(p) == Range(TokenValues(pdf[p].text))

AllLiterals == UNION {LiteralsOn(p) : p \in TextPages}

\* C1: raw ranking ignores scale.  Every entry of the raw collection carries the
\* value of a number as it is written on the entry's page; with N = 1 the result
\* is the largest number written in the document (nothing when none is written);
\* for the single page "500M vs 999999" it is 999999 on page 1.
C1_RawIgnoresScale ==
    pc = "done" =>
        /\ \A k \in DOMAIN raw_values :
              /\ raw_values[k][2] \in TextPages
              /\ raw_values[k][1] \in LiteralsOn(raw_values[k][2])
        /\ top_n = 1 =>
              IF AllLiterals = {} THEN top_raw = <<>>
              ELSE /\ Len(top_raw) = 1
                   /\ top_raw[1][1] \in AllLiterals
                   /\ \A v \in AllLiterals : AtMost(v, top_raw[1][1])
        /\ (top_n = 1 /\ pdf = <<Page(TxtRawVsScaled)>>) =>
              top_raw = <<<<Num(<<"9", "9", "9", "9", "9", "9">>), 1>>>>

\* the text holds one suffixed number and no other digit: the number runs from a
\* token start to just before a suffix letter that ends a word
SingleSuffixedAt(t, p, e) ==
    /\ TokenStart(t, p)
    /\ IsNumber(t, p, e - 1)
    /\ t[e] \in SuffixLetters
    /\ e = Len(t) \/ ~IsWord(t[e + 1])
    /\ \A k \in 1..Len(t) : IsDigit(t[k]) => (k >= p /\ k < e)

IsSingleSuffixed(t) ==
    \E p \in 1..Len(t) : \E e \in (p + 1)..Len(t) : SingleSuffixedAt(t, p, e)

\* C2: idempotence of scaling.  A one-page document whose text holds a single
\* suffixed number and no other digit yields exactly one entry: raw_value the
\* number, multiplier the suffix's, scaled_value their product.
C2_SingleSuffixedOneEntry ==
    (pc = "page_done" /\ IsSingleSuffixed(text)) =>
        \E p \in 1..Len(text) : \E e \in (p + 1)..Len(text) :
            /\ SingleSuffixedAt(text, p, e)
            /\ top_values =
                  <<<<Times(ValueAt(text, p, e - 1), Pow10(SuffixExponent(text[e]))),
                      1,
                      ValueAt(text, p, e - 1),
                      Pow10(SuffixExponent(text[e]))>>>>

\* C7: plain-number extraction returns one value per numeric token of the text,
\* left to right with duplicates kept, each the value of the whole token; no
\* token is split or truncated.
C7_WholeTokens ==
    pc \in {"extracted", "resolved", "page_done"} => numbers = TokenValues(text)

\* C10: for every integer N both ranking functions return at most N entries, and
\* none when N <= 0.
C10_LengthBound ==
    /\ pc \in {"raw", "done"} => Len(top_scaled) <= (IF top_n > 0 THEN top_n ELSE 0)
    /\ pc = "done" => Len(top_raw) <= (IF top_n > 0 THEN top_n ELSE 0)

-----------------------------------------------------------------------------
(* What the specification calls the dominant multiplier *)

\* the surface forms "in <keyword>" and "(<keyword>)" with the keyword's exponent
KeywordForms ==
    {<<Str(<<"i", "n", " ">>) \o w[1], w[2]>> : w \in Range(SCALE_KEYWORDS)}
    \cup {<<Str(<<"(">>) \o w[1] \o Str(<<")">>), w[2]>> : w \in Range(SCALE_KEYWORDS)}

\* c is the character p of a form, or the capital letter of it
SameLetter(c, p) ==
    c = p \/ (p >= Ord("a") /\ p <= Ord("z") /\ c = p - (Ord("a") - Ord("A")))

\* the form occurs in t at 0-based index k, letter case ignored
OccursAt(t, form, k) ==
    /\ k + Len(form) <= Len(t)
    /\ \A j \in 1..Len(form) : SameLetter(t[k + j], form[j])

\* <<index, exponent>> of every occurrence of every form
Occurrences(t) ==
    {o \in (0..Len(t)) \X {3, 6, 9} :
        \E f \in KeywordForms : f[2] = o[2] /\ OccursAt(t, f[1], o[1])}

\* C4: last keyword wins.  find_scale_factor returns the multiplier of the form
\* occurrence with the greatest index, and 1 when no form occurs; "(in thousands)"
\* followed later by "(in billions)" gives 10^9.
C4_LastKeywordWins ==
    pc \in {"resolved", "page_done"} =>
        /\ IF Occurrences(text) = {} THEN scale_factor = Pow10(0)
           ELSE \E o \in Occurrences(text) :
                    /\ \A q \in Occurrences(text) : q[1] <= o[1]
                    /\ scale_factor = Pow10(o[2])
        /\ text = TxtThousandsThenBillions => scale_factor = Pow10(9)

C4_Witness ==
    /\ pc = "resolved"
    /\ text = TxtThousandsThenBillions
    /\ scale_factor = Pow10(9)

-----------------------------------------------------------------------------

\* C3: no double counting.  On a page the plain numbers that are emitted, each
\* under the page's contextual multiplier, are exactly those whose raw value is
\* not among the raw values of the page's suffix entries, in their order; for
\* "(in millions)\nTotal: 134.0M\nOther: 12" the entries are 134,000,000 from
\* the suffix and 12,000,000 from the context, and nothing else.
C3_NoDoubleCounting ==
    pc = "page_done" =>
        LET ns       == Len(suffix_numbers)
            consumed == {top_values[k][3] : k \in 1..ns}
            Free(v)  == v \notin consumed
            kept     == SelectSeq(numbers, Free)
            plain    == SubSeq(top_values, ns + 1, Len(top_values))
        IN  /\ Len(top_values) >= ns
            /\ plain = [k \in DOMAIN kept |->
                           <<Times(kept[k], scale_factor), 1, kept[k], scale_factor>>]
            /\ \A k \in DOMAIN plain : plain[k][3] \notin consumed
            /\ text = TxtNoDouble =>
                  top_values =
                      << <<Num(<<"1", "3", "4", "0", "0", "0", "0", "0", "0">>), 1,
                           Num(<<"1", "3", "4">>), Pow10(6)>>,
                         <<Num(<<"1", "2", "0", "0", "0", "0", "0", "0">>), 1,
                           Num(<<"1", "2">>), Pow10(6)>> >>

C3_Witness ==
    /\ pc = "page_done"
    /\ text = TxtNoDouble
    /\ Len(suffix_numbers) = 1
    /\ Len(numbers) = 2
    /\ Len(top_values) = 2

\* C8: suffix entries keep their own multiplier.  parse_number_with_suffix gives
\* one entry per number that is directly followed by one of K/M/B/T (either
\* case) ending a word, left to right, with multiplier 10^3/10^6/10^9/10^12 and
\* scaled_value = raw_value * multiplier; in the page's collection each of them
\* carries that multiplier whatever the page's scale factor is; "5Mb" gives none.
C8_SuffixKeepsOwnMultiplier ==
    /\ pc # "text" => suffix_numbers = ExpectedSuffixEntries(text)
    /\ pc = "page_done" =>
          /\ Len(top_values) >= Len(suffix_numbers)
          /\ \A k \in DOMAIN suffix_numbers :
                top_values[k] = <<ExpectedSuffixEntries(text)[k][2], 1,
                                  ExpectedSuffixEntries(text)[k][1],
                                  ExpectedSuffixEntries(text)[k][3]>>
    /\ (pc # "text" /\ text = TxtSuffixThenLetter) => suffix_numbers = <<>>

C8_Witness ==
    /\ pc = "page_done"
    /\ text = TxtSuffixUnderKeyword
    /\ scale_factor = Pow10(3)
    /\ top_values = << <<Num(<<"2", "0", "0", "0", "0", "0", "0">>), 1, Num(<<"2">>), Pow10(6)>>,
                       <<Num(<<"3", "0", "0", "0">>), 1, Num(<<"3">>), Pow10(3)>> >>

-----------------------------------------------------------------------------

\* what the pages 1..n contribute to the scaled collection, in accumulation
\* order: page by page, each entry tagged with the page's position in the
\* document, a page without text contributing nothing
RECURSIVE Accumulated(_)
Accumulated(n) ==
    IF n = 0 THEN <<>>
    ELSE Accumulated(n - 1)
         \o (IF n \in TextPages THEN PageEntries(pdf[n].text, n) ELSE <<>>)

\* entry l comes before entry j in the ranking: a greater scaled value, or an
\* equal one and an earlier place in the collection
Precedes(acc, l, j) ==
    \/ Less(acc[j][1], acc[l][1])
    \/ acc[l][1] = acc[j][1] /\ l < j

\* the collection in ranking order
Ranked(acc) ==
    [k \in 1..Len(acc) |->
        acc[CHOOSE j \in 1..Len(acc) :
                Cardinality({l \in 1..Len(acc) : Precedes(acc, l, j)}) = k - 1]]

\* C5: ordering and truncation.  For N >= 1 the scaled result is the first
\* min(N, total) entries of the collection ordered by scaled_value descending,
\* equal values in accumulation order, each entry tagged with its page's
\* position; pages giving 10, 1000 and 500 with N = 2 give 1000 (page 2) and
\* then 500 (page 3).
C5_OrderingAndTruncation ==
    (pc \in {"raw", "done"} /\ top_n >= 1) =>
        LET acc == Accumulated(Len(pdf))
            n   == IF top_n < Len(acc) THEN top_n ELSE Len(acc)
        IN  /\ top_scaled = SubSeq(Ranked(acc), 1, n)
            /\ (pdf = DocOrdering /\ top_n = 2) =>
                  top_scaled =
                      << <<Num(<<"1", "0", "0", "0">>), 2, Num(<<"1", "0", "0", "0">>), Pow10(0)>>,
                         <<Num(<<"5", "0", "0">>), 3, Num(<<"5", "0", "0">>), Pow10(0)>> >>

C5_Witness ==
    /\ pc = "done"
    /\ pdf = DocOrdering
    /\ top_n = 2
    /\ Len(top_values) = 3
    /\ top_scaled =
          << <<Num(<<"1", "0", "0", "0">>), 2, Num(<<"1", "0", "0", "0">>), Pow10(0)>>,
             <<Num(<<"5", "0", "0">>), 3, Num(<<"5", "0", "0">>), Pow10(0)>> >>

\* the page numbers the entries of a collection are tagged with
ScaledTags == {top_values[k][2] : k \in DOMAIN top_values}
RawTags    == {raw_values[k][2] : k \in DOMAIN raw_values}

\* the pages with text on which a number is written
NumberPages == {p \in TextPages : TokenValues(pdf[p].text) # <<>>}

\* C6: empty pages are skipped, not errors.  A page whose text is empty or
\* absent contributes no entry to either collection and the pages after it are
\* still visited (the pages that contribute are exactly the pages with text on
\* which a number is written); when no page has text, or none holds a number,
\* both functions return the empty sequence.
C6_EmptyPagesSkipped ==
    pc = "done" =>
        /\ ScaledTags = NumberPages
        /\ RawTags = NumberPages
        /\ NumberPages = {} => (top_scaled = <<>> /\ top_raw = <<>>)

C6_Witness ==
    /\ pc = "done"
    /\ Len(pdf) = 2
    /\ pdf[1] = NoText
    /\ pdf[2] = Page(TxtTen)
    /\ top_n = 1
    /\ top_scaled = << <<Num(<<"1", "0">>), 2, Num(<<"1", "0">>), Pow10(0)>> >>
    /\ top_raw = << <<Num(<<"1", "0">>), 2>> >>

\* C9: per-page isolation.  Every pass of the scaled page loop leaves the
\* entries already collected as they are and appends what the page, taken by
\* its own text and position alone, contributes (nothing for a page without
\* text); the document is not changed.
C9_PerPageIsolation ==
    [][(pc = "scaled" /\ pc' = "scaled") =>
          /\ pdf' = pdf
          /\ i' = i + 1
          /\ top_values' =
                top_values \o (IF (i + 1) \in TextPages
                               THEN PageEntries(pdf[i + 1].text, i + 1)
                               ELSE <<>>)]_vars

C9_Witness ==
    /\ pc = "scaled"
    /\ i = 2
    /\ pdf = <<Page(TxtTie), Page(TxtTen)>>
    /\ top_values =
          << <<Num(<<"1", "0", "0", "0", "0">>), 1, Num(<<"1", "0">>), Pow10(3)>>,
             <<Num(<<"1", "0", "0", "0", "0">>), 1, Num(<<"1", "0", "0", "0", "0">>), Pow10(0)>>,
             <<Num(<<"1", "0">>), 2, Num(<<"1", "0">>), Pow10(0)>> >>

====
